---- MODULE Spec2Model ----
(***************************************************************************)
(* Request-handling pipeline of the Gemini API proxy: the key pool         *)
(* manager (GeminiKeyManager), the upstream client (GeminiClient), the     *)
(* rate limiter (RateLimiter) and the concurrent cache manager             *)
(* (ConcurrentCacheManager).                                               *)
(*                                                                         *)
(* The program runs on one JavaScript event loop: a synchronous method     *)
(* runs to completion, an async method is interleaved with the others only *)
(* at its awaits.  Every action below is one such run-to-completion step.  *)
(*                                                                         *)
(* Strings the code inspects (includes, startsWith, endsWith, slice, trim, *)
(* toLowerCase) are tuples of one-character strings; the state holds their *)
(* names, and the tables KeyText, ErrText, AddText, RemoveText hold the    *)
(* texts.  The configured credentials are pairwise distinct secrets.       *)
(***************************************************************************)
EXTENDS Integers, Sequences, FiniteSets, TLC

\* ------------------------------------------------------------------------
\* Bounds of the model
\* ------------------------------------------------------------------------
MaxKeys == 3          \* credentials in the pool
MaxErr == 4           \* cap on a credential's errorCount
Handlers == {"h1", "h2"}   \* concurrent callers of the key manager

\* ------------------------------------------------------------------------
\* Text helpers (String.prototype methods on tuples of characters)
\* ------------------------------------------------------------------------
Upper == <<"A","B","C","D","E","F","G","H","I","J","K","L","M","N","O","P","Q","R","S","T","U","V","W","X","Y","Z">>
Lower == <<"a","b","c","d","e","f","g","h","i","j","k","l","m","n","o","p","q","r","s","t","u","v","w","x","y","z">>

LowerChar(c) ==
  IF \E i \in 1..26 : Upper[i] = c
    THEN Lower[CHOOSE i \in 1..26 : Upper[i] = c]
    ELSE c

toLowerCase(s) == [i \in 1..Len(s) |-> LowerChar(s[i])]

includes(s, sub) ==
  \E i \in 1..(Len(s) - Len(sub) + 1) : SubSeq(s, i, i + Len(sub) - 1) = sub

startsWith(s, p) == Len(p) <= Len(s) /\ SubSeq(s, 1, Len(p)) = p

endsWith(s, p) == Len(p) <= Len(s) /\ SubSeq(s, Len(s) - Len(p) + 1, Len(s)) = p

\* s.slice(-n): the last n characters, the whole string when it is shorter
sliceLast(s, n) == IF Len(s) <= n THEN s ELSE SubSeq(s, Len(s) - n + 1, Len(s))

RECURSIVE trimStart(_)
trimStart(s) == IF s # <<>> /\ Head(s) = " " THEN trimStart(Tail(s)) ELSE s

RECURSIVE trimEnd(_)
trimEnd(s) ==
  IF s # <<>> /\ s[Len(s)] = " " THEN trimEnd(SubSeq(s, 1, Len(s) - 1)) ELSE s

trim(s) == trimEnd(trimStart(s))

\* ------------------------------------------------------------------------
\* Credentials
\* ------------------------------------------------------------------------
KeyUniverse == {"K1", "K2", "K3"}
NoKey == "none"

\* a fourth credential, for the pools of validateAllKeys
FourthKey == "K4"

KeyText ==
  [k \in KeyUniverse \cup {FourthKey} |->
    CASE k = "K1" -> <<"A","I","z","a","S","y","A","a","a","a","a","a","a","a","a","a","a","a","a","a","a","a","a","a","a","a","a","0","0","0","0","0","1">>
      [] k = "K2" -> <<"A","I","z","a","S","y","B","b","b","b","b","b","b","b","b","b","b","b","b","b","b","b","b","b","b","b","b","0","0","0","0","0","2">>
      [] k = "K3" -> <<"a","b","c">>
      [] k = "K4" -> <<"A","I","z","a","S","y","D","d","d","d","d","d","d","d","d","d","d","d","d","d","d","d","d","d","d","d","d","0","0","0","0","0","4">>]

\* ------------------------------------------------------------------------
\* Error messages
\* ------------------------------------------------------------------------
UpstreamErrors == {"E_KEY_INVALID", "E_PERMISSION", "E_QUOTA", "E_NETWORK"}
\* error details reported to the key manager directly
ReportedErrors == UpstreamErrors \cup {"E_REASON", "E_INVALID_KEY"}
NoValidKeysError == "E_NO_KEYS"
NoError == "E_NONE"
ErrorIds == ReportedErrors \cup {NoValidKeysError}

ErrText ==
  [e \in ErrorIds |->
    CASE e = "E_KEY_INVALID" -> <<"A","P","I"," ","k","e","y"," ","n","o","t"," ","v","a","l","i","d","."," ","P","l","e","a","s","e"," ","p","a","s","s"," ","a"," ","v","a","l","i","d"," ","A","P","I"," ","k","e","y",".">>
      [] e = "E_PERMISSION" -> <<"4","0","3"," ","P","E","R","M","I","S","S","I","O","N","_","D","E","N","I","E","D">>
      [] e = "E_QUOTA" -> <<"4","2","9"," ","Q","u","o","t","a"," ","e","x","c","e","e","d","e","d">>
      [] e = "E_NETWORK" -> <<"f","e","t","c","h"," ","f","a","i","l","e","d">>
      [] e = "E_REASON" -> <<"A","P","I","_","K","E","Y","_","I","N","V","A","L","I","D">>
      [] e = "E_INVALID_KEY" -> <<"I","n","v","a","l","i","d"," ","A","P","I"," ","k","e","y">>
      [] e = "E_NO_KEYS" -> <<"N","o"," ","v","a","l","i","d"," ","G","e","m","i","n","i"," ","A","P","I"," ","k","e","y","s"," ","a","v","a","i","l","a","b","l","e">>]

\* ------------------------------------------------------------------------
\* GeminiKeyManager
\* ------------------------------------------------------------------------
maxErrorCount == 3

VARIABLES
  keys,          \* GeminiKeyManager.keys: sequence of [key, isValid, errorCount]
  currentIndex,  \* GeminiKeyManager.currentIndex
  rot,           \* history: the getNextKey results since the pool last changed
  callers,       \* history: the handlers that issued the calls recorded in rot
  lastOp,        \* history: the key-manager operation that ran last
  trans,         \* history: per credential, the transient failures reported
                 \* since it was last fresh (healthy with count 0); Dirty when
                 \* something else happened to it
  observe,       \* which history the specification records
  pc,            \* per handler: where its chatCompletion call stands
  attempt,       \* per handler: chatCompletion's loop variable
  apiKey,        \* per handler: the credential of the attempt in flight
  lastError,     \* per handler: chatCompletion's lastError
  outcome,       \* per handler: how the call ended, and with which error
  upstreamCalls, \* history: upstream requests sent by the handler's call
  lastFailure,   \* history: the upstream attempt that has just failed, and its report
  permanent,     \* history: the credentials for which a call has reported a
                 \* permanent failure
  failedKey,     \* history: per handler, the credential of the attempt of its
                 \* call which failed last
  now,           \* Date.now(), in milliseconds
  limiterCache,  \* RateLimiter.cache: key -> [v: RateLimitInfo, t: expiry time]
  minuteCalls,   \* history: checkRateLimit calls in the current minute bucket
  dayRejected,   \* history: a call of this bucket was rejected by the day limit
  minuteAllowed, \* history: calls allowed in the current minute bucket
  dayAllowed,    \* history: per client, calls allowed in the current day
  lastRL,        \* history: the checkRateLimit call that has just returned
  enableCache,        \* ConcurrentCacheManager.enableCache
  concurrentRequests, \* ConcurrentCacheManager.concurrentRequests
  enableConcurrent,   \* ConcurrentCacheManager.enableConcurrent
  workload,      \* the requests the clients send
  responseCache, \* ConcurrentCacheManager.cache: key -> [v: CachedResponse, t]
  call,          \* per handler: its handleRequest call and the promises it awaits
  lastEvent,     \* history: what handleRequest has just done
  stored,        \* history: per request, when handleRequest last returned a
                 \* response it got from upstream, and that response
  enableFakeStreaming, \* process.env.ENABLE_FAKE_STREAMING === 'true'
  controller,    \* the stream controller: frames enqueued, close() calls, and
                 \* enqueue() calls made after close()
  streamPc,      \* where the start() callback of the stream stands
  keepAliveTimer,\* handleFakeStreaming: the interval timer is set
  completed,     \* handleFakeStreaming.completed
  chunks,        \* handleFakeStreaming: the chunks still to be sent
  streamAttempt, \* chatCompletionStream's loop variable
  upstream,      \* history: how the upstream call of the stream ended
  thrown,        \* history: what handleFakeStreaming / chatCompletionStream threw
  origin,        \* history: per content chunk chatCompletionStream yielded, the
                 \* attempt whose upstream stream it came from
  password,      \* process.env.PASSWORD
  gate,          \* per handler: where its POST stands before the dispatch
  answer,        \* history: the answer POST has just given before the dispatch
  enableDisguise,\* DisguiseManager.enableDisguise
  converted,     \* history: the last convertMessagesToGemini call and its result
  validation     \* the validateAllKeys call: its position, loop variable,
                 \* batch and counters, and the probes it has started

rateVars == <<limiterCache, minuteCalls, dayRejected, minuteAllowed, dayAllowed,
              lastRL>>
cacheVars == <<enableCache, concurrentRequests, enableConcurrent, workload,
               responseCache, call, lastEvent, stored>>
poolVars == <<keys, currentIndex, rot, callers, lastOp, trans, observe>>
clientVars ==
  <<pc, attempt, apiKey, lastError, outcome, upstreamCalls, lastFailure, permanent,
    failedKey>>
streamVars == <<enableFakeStreaming, controller, streamPc, keepAliveTimer, completed,
                chunks, streamAttempt, upstream, thrown, origin>>

\* what the operations of one component leave alone
gateVars == <<password, gate, answer>>
disguiseVars == <<enableDisguise, converted>>

\* what the operations of one component leave alone
poolFrame ==
  <<observe, clientVars, rateVars, cacheVars, streamVars, gateVars, now,
    disguiseVars, validation>>
clientFrame ==
  <<rateVars, cacheVars, streamVars, gateVars, now, disguiseVars, validation>>
rateFrame ==
  <<poolVars, clientVars, cacheVars, streamVars, gateVars, disguiseVars, validation>>
cacheFrame ==
  <<poolVars, clientVars, rateVars, streamVars, gateVars, disguiseVars, validation>>
streamFrame ==
  <<poolVars, clientVars, rateVars, cacheVars, gateVars, now, disguiseVars, validation>>

ApiKeyInfo(k) == [key |-> k, isValid |-> TRUE, errorCount |-> 0]

PoolKeys(ks) == {ks[i].key : i \in 1..Len(ks)}

\* keys.find / keys.findIndex: the first position holding the key, 0 if none
IndexOfKey(ks, k) ==
  IF k \in PoolKeys(ks)
    THEN CHOOSE i \in 1..Len(ks) :
           ks[i].key = k /\ \A j \in 1..(i - 1) : ks[j].key # k
    ELSE 0

IsHealthy(r) == r.isValid /\ r.errorCount < maxErrorCount

getValidKeys_all(ks) == ks

getValidKeys(ks) == SelectSeq(ks, IsHealthy)

\* the healthy credentials by name, in pool order
ValidNames(ks) ==
  LET validKeys == getValidKeys(ks) IN [j \in 1..Len(validKeys) |-> validKeys[j].key]

getNextKey_stuck(ks, idx) ==
  LET validKeys == getValidKeys(ks) IN
  IF Len(validKeys) = 0
    THEN [ok |-> FALSE, key |-> NoKey, index |-> idx]
    ELSE [ok |-> TRUE,
          key |-> validKeys[(idx % Len(validKeys)) + 1].key,
          index |-> idx % Len(validKeys)]

\* the returned key (or the throw) and the new currentIndex
getNextKey(ks, idx) ==
  LET validKeys == getValidKeys(ks) IN
  IF Len(validKeys) = 0
    THEN [ok |-> FALSE, key |-> NoKey, index |-> idx]
    ELSE [ok |-> TRUE,
          key |-> validKeys[(idx % Len(validKeys)) + 1].key,
          index |-> (idx + 1) % Len(validKeys)]

isPermanentError_threeSignals(msg) ==
  \/ includes(msg, <<"A","P","I","_","K","E","Y","_","I","N","V","A","L","I","D">>)
  \/ includes(msg, <<"P","E","R","M","I","S","S","I","O","N","_","D","E","N","I","E","D">>)
  \/ includes(msg, <<"I","n","v","a","l","i","d"," ","A","P","I"," ","k","e","y">>)

isPermanentError(msg) ==
  \/ includes(msg, <<"A","P","I","_","K","E","Y","_","I","N","V","A","L","I","D">>)
  \/ includes(msg, <<"P","E","R","M","I","S","S","I","O","N","_","D","E","N","I","E","D">>)
  \/ includes(msg, <<"I","n","v","a","l","i","d"," ","A","P","I"," ","k","e","y">>)
  \/ includes(msg, <<"A","P","I"," ","k","e","y"," ","n","o","t"," ","v","a","l","i","d">>)

IsPermanent == [e \in ErrorIds |-> isPermanentError(ErrText[e])]

markKeyFailed_early(ks, k, e) ==
  LET i == IndexOfKey(ks, k) IN
  IF i = 0 THEN ks
  ELSE LET n == ks[i].errorCount + 1 IN
       IF IsPermanent[e]
         THEN [ks EXCEPT ![i].isValid = FALSE, ![i].errorCount = maxErrorCount]
         ELSE IF n >= maxErrorCount - 1
           THEN [ks EXCEPT ![i].isValid = FALSE, ![i].errorCount = n]
           ELSE [ks EXCEPT ![i].errorCount = n]

markKeyFailed(ks, k, e) ==
  LET i == IndexOfKey(ks, k) IN
  IF i = 0 THEN ks
  ELSE LET n == ks[i].errorCount + 1 IN
       IF IsPermanent[e]
         THEN [ks EXCEPT ![i].isValid = FALSE, ![i].errorCount = maxErrorCount]
         ELSE IF n >= maxErrorCount
           THEN [ks EXCEPT ![i].isValid = FALSE, ![i].errorCount = n]
           ELSE [ks EXCEPT ![i].errorCount = n]

markKeySuccess(ks, k) ==
  LET i == IndexOfKey(ks, k) IN
  IF i = 0 THEN ks
  ELSE [ks EXCEPT ![i].isValid = TRUE, ![i].errorCount = 0]

\* keys.filter(valid) and the index reset of removeInvalidKeys
removeInvalidKeys(ks, idx) ==
  LET kept == SelectSeq(ks, IsHealthy) IN
  [keys |-> kept, index |-> IF Len(ks) - Len(kept) > 0 THEN 0 ELSE idx]

\* validateSingleKey's own classification of a probe error
isPermanentProbeError(msg) ==
  \/ includes(msg, <<"A","P","I","_","K","E","Y","_","I","N","V","A","L","I","D">>)
  \/ includes(msg, <<"P","E","R","M","I","S","S","I","O","N","_","D","E","N","I","E","D">>)
  \/ includes(msg, <<"I","n","v","a","l","i","d"," ","A","P","I"," ","k","e","y">>)

IsPermanentProbe == [e \in ErrorIds |-> isPermanentProbeError(ErrText[e])]

\* validateSingleKey after its await, on the record of credential k: the
\* probe answered
validateSingleKeyOk(ks, k) ==
  LET i == IndexOfKey(ks, k) IN
  IF i = 0 THEN ks
  ELSE [ks EXCEPT ![i].isValid = TRUE, ![i].errorCount = 0]

\* validateSingleKey after its await: the probe failed with error e
validateSingleKeyFail(ks, k, e) ==
  LET i == IndexOfKey(ks, k) IN
  IF i = 0 THEN ks
  ELSE LET n == ks[i].errorCount + 1 IN
       IF IsPermanentProbe[e]
         THEN [ks EXCEPT ![i].isValid = FALSE, ![i].errorCount = maxErrorCount]
         ELSE IF n >= maxErrorCount
           THEN [ks EXCEPT ![i].isValid = FALSE, ![i].errorCount = n]
           ELSE [ks EXCEPT ![i].errorCount = n]

\* s.substring(0, n)
substring0(s, n) == IF Len(s) <= n THEN s ELSE SubSeq(s, 1, n)

\* characters of a credential which getKeyStats shows
shownLength == 8

\* getKeyStats: the counts and the per-key view
getKeyStats(ks) ==
  [total |-> Len(ks),
   valid |-> Len(getValidKeys(ks)),
   invalid |-> Len(ks) - Len(getValidKeys(ks)),
   keys |-> [i \in 1..Len(ks) |->
              [key |-> substring0(KeyText[ks[i].key], shownLength) \o <<".", ".", ".">>,
               isValid |-> ks[i].isValid,
               errorCount |-> ks[i].errorCount]]]

\* inputs of addKey
AddInputs ==
  {"A_K1_PADDED", "A_K2", "A_K3", "A_SHORT", "A_EMPTY", "A_BLANK", "A_29",
   "A_OTHER_PREFIX"}

AddText ==
  [a \in AddInputs |->
    CASE a = "A_K1_PADDED" -> <<" ">> \o KeyText["K1"] \o <<" ">>
      [] a = "A_K2" -> KeyText["K2"]
      [] a = "A_K3" -> KeyText["K3"]
      [] a = "A_SHORT" -> <<"A","I","z","a","S","h","o","r","t">>
      [] a = "A_EMPTY" -> <<>>
      [] a = "A_BLANK" -> <<" ", " ">>
      \* 'AIza' and 25 more characters
      [] a = "A_29" -> SubSeq(KeyText["K1"], 1, 29)
      \* as long as a credential, without the prefix
      [] a = "A_OTHER_PREFIX" -> <<"B">> \o Tail(KeyText["K2"])]

KeyOfText(t) == CHOOSE k \in KeyUniverse : KeyText[k] = t

\* key.trim() of every input, and the format test of addKey on it
TrimmedKey == [a \in AddInputs |-> trim(AddText[a])]

FormatOk ==
  [a \in AddInputs |->
    startsWith(TrimmedKey[a], <<"A","I","z","a">>) /\ Len(TrimmedKey[a]) >= 30]

\* (a variant without the look for the credential in the pool)
addKey_again(ks, a) ==
  IF AddText[a] = <<>> THEN [success |-> FALSE, keys |-> ks]
  ELSE IF ~FormatOk[a] THEN [success |-> FALSE, keys |-> ks]
  ELSE [success |-> TRUE,
        keys |-> Append(ks, ApiKeyInfo(KeyOfText(TrimmedKey[a])))]

addKey(ks, a) ==
  IF AddText[a] = <<>> THEN [success |-> FALSE, keys |-> ks]
  ELSE IF ~FormatOk[a] THEN [success |-> FALSE, keys |-> ks]
  ELSE IF \E i \in 1..Len(ks) : KeyText[ks[i].key] = TrimmedKey[a]
    THEN [success |-> FALSE, keys |-> ks]
  ELSE [success |-> TRUE,
        keys |-> Append(ks, ApiKeyInfo(KeyOfText(TrimmedKey[a])))]

\* inputs of removeKey
RemoveInputs == {"R_K1", "R_K2", "R_K3", "R_SUFFIX1", "R_NOTFOUND", "R_EMPTY"}

RemoveText ==
  [r \in RemoveInputs |->
    CASE r = "R_K1" -> KeyText["K1"]
      [] r = "R_K2" -> KeyText["K2"]
      [] r = "R_K3" -> KeyText["K3"]
      [] r = "R_SUFFIX1" -> <<"0","0","0","0","0","1">>
      [] r = "R_NOTFOUND" -> <<"z","z","z","z","z","z">>
      [] r = "R_EMPTY" -> <<>>]

\* the predicate of removeKey's findIndex, for every credential and input
MatchesKey ==
  [k \in DOMAIN KeyText |-> [r \in RemoveInputs |->
    \/ KeyText[k] = RemoveText[r]
    \/ endsWith(KeyText[k], sliceLast(RemoveText[r], 6))
    \/ endsWith(RemoveText[r], sliceLast(KeyText[k], 6))]]

RemoveAt(s, i) == SubSeq(s, 1, i - 1) \o SubSeq(s, i + 1, Len(s))

\* (a variant without the guard of the last valid credential)
removeKey_any(ks, idx, id) ==
  LET fail == [success |-> FALSE, keys |-> ks, index |-> idx, removed |-> NoKey] IN
  IF RemoveText[id] = <<>> THEN fail
  ELSE IF ~\E i \in 1..Len(ks) : MatchesKey[ks[i].key][id] THEN fail
  ELSE LET keyIndex == CHOOSE i \in 1..Len(ks) :
                         /\ MatchesKey[ks[i].key][id]
                         /\ \A j \in 1..(i - 1) : ~MatchesKey[ks[j].key][id]
           rest == RemoveAt(ks, keyIndex)
       IN [success |-> TRUE, keys |-> rest,
           index |-> IF idx >= Len(rest) THEN 0 ELSE idx,
           removed |-> ks[keyIndex].key]

removeKey(ks, idx, id) ==
  LET fail == [success |-> FALSE, keys |-> ks, index |-> idx, removed |-> NoKey] IN
  IF RemoveText[id] = <<>> THEN fail
  ELSE IF ~\E i \in 1..Len(ks) : MatchesKey[ks[i].key][id] THEN fail
  ELSE LET keyIndex == CHOOSE i \in 1..Len(ks) :
                         /\ MatchesKey[ks[i].key][id]
                         /\ \A j \in 1..(i - 1) : ~MatchesKey[ks[j].key][id]
           validKeys == getValidKeys(ks)
       IN IF Len(validKeys) = 1 /\ validKeys[1].key = ks[keyIndex].key
            THEN fail
            ELSE LET rest == RemoveAt(ks, keyIndex) IN
                 [success |-> TRUE, keys |-> rest,
                  index |-> IF idx >= Len(rest) THEN 0 ELSE idx,
                  removed |-> ks[keyIndex].key]

\* ------------------------------------------------------------------------
\* Key-manager operations as actions
\* ------------------------------------------------------------------------
\* Each specification records one kind of history (observe); the others stay
\* at their initial value.
Observing(what, new, old) == IF observe = what THEN new ELSE old

NoInput == "none"

Op(op, k, ok, err, prior) ==
  [op |-> op, key |-> k, ok |-> ok, err |-> err, prior |-> prior,
   input |-> NoInput, view |-> <<>>]

\* an operation called with the text `input`
OpOn(op, input, k, ok) == [Op(op, k, ok, NoError, 0) EXCEPT !.input = input]

NoOp == Op("init", NoKey, TRUE, NoError, 0)

\* trans[k] after a success report that follows a disabling run of transient
\* failures
Recovered == 0 - 2
\* trans[k] once anything but a transient failure report has hit the run
Dirty == 0 - 1
Fresh(t) == t = 0 \/ t = Recovered

ErrorCountOf(ks, k) ==
  IF k \in PoolKeys(ks) THEN ks[IndexOfKey(ks, k)].errorCount ELSE 0

\* the last n+1 results are kept
Record(r, entry, n) ==
  LET a == Append(r, entry) IN
  IF Len(a) > n + 1 THEN Tail(a) ELSE a

PoolChanged ==
  /\ rot' = IF observe = "last" THEN rot ELSE <<>>
  /\ callers' = {}

GetNextKey(h) ==
  LET r == getNextKey(keys, currentIndex) IN
  /\ currentIndex' = r.index
  /\ rot' = IF observe = "last"
              THEN \* the credential returned last and the healthy ones of then
                   IF r.ok THEN <<r.key, ValidNames(keys)>> ELSE rot
              ELSE Observing("rotation",
                             IF r.ok THEN Record(rot, r.key, Len(keys)) ELSE rot, rot)
  /\ callers' = Observing("rotation", IF r.ok THEN callers \cup {h} ELSE callers,
                          callers)
  /\ lastOp' = Observing("operation", Op("getNextKey", r.key, r.ok, NoError, 0),
                         lastOp)
  /\ UNCHANGED <<keys, trans>>
  /\ UNCHANGED poolFrame

MarkKeyFailed(k, e) ==
  /\ k \in PoolKeys(keys) => ErrorCountOf(keys, k) < MaxErr
  /\ keys' = markKeyFailed(keys, k, e)
  /\ PoolChanged
  /\ trans' = Observing("health",
                IF k \in PoolKeys(keys)
                  THEN [trans EXCEPT ![k] =
                          IF IsPermanent[e] \/ trans[k] = Dirty THEN Dirty
                          ELSE IF Fresh(trans[k]) THEN 1
                          ELSE trans[k] + 1]
                  ELSE trans, trans)
  /\ lastOp' = Observing("operation",
                 Op("markKeyFailed", k, k \in PoolKeys(keys), e,
                    ErrorCountOf(keys, k)), lastOp)
  /\ UNCHANGED currentIndex
  /\ UNCHANGED poolFrame

MarkKeySuccess(k) ==
  /\ keys' = markKeySuccess(keys, k)
  /\ PoolChanged
  /\ trans' = Observing("health",
                IF k \in PoolKeys(keys)
                  THEN [trans EXCEPT ![k] =
                          IF trans[k] >= maxErrorCount THEN Recovered ELSE 0]
                  ELSE trans, trans)
  /\ lastOp' = Observing("operation",
                 Op("markKeySuccess", k, k \in PoolKeys(keys), NoError, 0), lastOp)
  /\ UNCHANGED currentIndex
  /\ UNCHANGED poolFrame

AddKey(a) ==
  LET r == addKey(keys, a) IN
  /\ r.success => Len(keys) < MaxKeys
  /\ keys' = r.keys
  /\ PoolChanged
  /\ trans' = Observing("health",
                IF r.success THEN [trans EXCEPT ![r.keys[Len(r.keys)].key] = 0]
                             ELSE trans, trans)
  /\ lastOp' = Observing("operation",
                 OpOn("addKey", a,
                      IF r.success THEN r.keys[Len(r.keys)].key ELSE NoKey,
                      r.success), lastOp)
  /\ UNCHANGED currentIndex
  /\ UNCHANGED poolFrame

removeKeyCall(id) ==
  LET r == removeKey(keys, currentIndex, id) IN
  /\ keys' = r.keys
  /\ currentIndex' = r.index
  /\ PoolChanged
  /\ trans' = Observing("health",
                IF r.success THEN [trans EXCEPT ![r.removed] = Dirty] ELSE trans, trans)
  /\ lastOp' = Observing("operation",
                 OpOn("removeKey", id, r.removed, r.success), lastOp)

RemoveKey(id) ==
  /\ removeKeyCall(id)
  /\ UNCHANGED poolFrame

GetKeyStats ==
  /\ lastOp' = Observing("operation",
                 [Op("getKeyStats", NoKey, TRUE, NoError, 0)
                    EXCEPT !.view = getKeyStats(keys).keys], lastOp)
  /\ UNCHANGED <<keys, currentIndex, rot, callers, trans>>
  /\ UNCHANGED poolFrame

RemoveInvalidKeys ==
  LET r == removeInvalidKeys(keys, currentIndex) IN
  /\ keys' = r.keys
  /\ currentIndex' = r.index
  /\ PoolChanged
  /\ trans' = Observing("health",
                [k \in KeyUniverse |->
                  IF k \in PoolKeys(r.keys) THEN trans[k] ELSE Dirty], trans)
  /\ lastOp' = Observing("operation",
                 Op("removeInvalidKeys", NoKey, TRUE, NoError, 0), lastOp)
  /\ UNCHANGED poolFrame

\* A probe of validateAllKeys settles for a credential of the pool
ProbeOk(k) ==
  /\ k \in PoolKeys(keys)
  /\ keys' = validateSingleKeyOk(keys, k)
  /\ PoolChanged
  /\ trans' = Observing("health", [trans EXCEPT ![k] = 0], trans)
  /\ lastOp' = Observing("operation", Op("probeOk", k, TRUE, NoError, 0), lastOp)
  /\ UNCHANGED currentIndex
  /\ UNCHANGED poolFrame

ProbeFail(k, e) ==
  /\ k \in PoolKeys(keys)
  /\ ErrorCountOf(keys, k) < MaxErr
  /\ keys' = validateSingleKeyFail(keys, k, e)
  /\ PoolChanged
  /\ trans' = Observing("health", [trans EXCEPT ![k] = Dirty], trans)
  /\ lastOp' = Observing("operation", Op("probeFail", k, TRUE, NoError, 0), lastOp)
  /\ UNCHANGED currentIndex
  /\ UNCHANGED poolFrame

\* ------------------------------------------------------------------------
\* Initial state: loadKeysFromEnv on a list of distinct secrets
\* ------------------------------------------------------------------------
Min(a, b) == IF a < b THEN a ELSE b

KeyLists ==
  UNION {{s \in [1..n -> KeyUniverse] : \A i, j \in 1..n : s[i] = s[j] => i = j} :
         n \in 1..Min(MaxKeys, Cardinality(KeyUniverse))}

loadKeysFromEnv(keyList) == [i \in 1..Len(keyList) |-> ApiKeyInfo(keyList[i])]

PoolInit ==
  /\ \E keyList \in KeyLists : keys = loadKeysFromEnv(keyList)
  /\ currentIndex = 0
  /\ rot = <<>>
  /\ callers = {}
  /\ lastOp = NoOp
  /\ trans = [k \in KeyUniverse |-> IF k \in PoolKeys(keys) THEN 0 ELSE Dirty]

PoolNext ==
  \/ \E h \in Handlers : GetNextKey(h)
  \/ \E k \in KeyUniverse, e \in ReportedErrors : MarkKeyFailed(k, e)
  \/ \E k \in KeyUniverse : MarkKeySuccess(k)
  \/ \E a \in AddInputs : AddKey(a)
  \/ \E id \in RemoveInputs : RemoveKey(id)
  \/ RemoveInvalidKeys
  \/ GetKeyStats
  \/ \E k \in KeyUniverse : ProbeOk(k)
  \/ \E k \in KeyUniverse, e \in ReportedErrors : ProbeFail(k, e)

\* ------------------------------------------------------------------------
\* GeminiClient.chatCompletion
\* ------------------------------------------------------------------------
maxRetries == 3

\* (a variant which does not look for 'api key')
isApiKeyError_withoutApiKey(msg) ==
  LET message == toLowerCase(msg) IN
  \/ includes(message, <<"u","n","a","u","t","h","o","r","i","z","e","d">>)
  \/ includes(message, <<"i","n","v","a","l","i","d"," ","k","e","y">>)
  \/ includes(message, <<"q","u","o","t","a"," ","e","x","c","e","e","d","e","d">>)

isApiKeyError(msg) ==
  LET message == toLowerCase(msg) IN
  \/ includes(message, <<"a","p","i"," ","k","e","y">>)
  \/ includes(message, <<"u","n","a","u","t","h","o","r","i","z","e","d">>)
  \/ includes(message, <<"i","n","v","a","l","i","d"," ","k","e","y">>)
  \/ includes(message, <<"q","u","o","t","a"," ","e","x","c","e","e","d","e","d">>)

IsApiKeyError == [e \in ErrorIds |-> isApiKeyError(ErrText[e])]

NoOutcome == [kind |-> "none", err |-> NoError]
NoFailure == [handler |-> "none", used |-> NoKey, err |-> NoError,
              reported |-> NoKey, changed |-> {}]

\* the credentials whose record differs between two pools
ChangedKeys(old, new) ==
  {k \in KeyUniverse :
     k \in PoolKeys(old) /\ k \in PoolKeys(new)
       /\ old[IndexOfKey(old, k)] # new[IndexOfKey(new, k)]}

ClientInit ==
  /\ pc = [h \in Handlers |-> "idle"]
  /\ attempt = [h \in Handlers |-> 0]
  /\ apiKey = [h \in Handlers |-> NoKey]
  /\ lastError = [h \in Handlers |-> NoError]
  /\ outcome = [h \in Handlers |-> NoOutcome]
  /\ upstreamCalls = [h \in Handlers |-> 0]
  /\ lastFailure = NoFailure
  /\ permanent = {}
  /\ failedKey = [h \in Handlers |-> NoKey]

\* chatCompletion is called: lastError = null, attempt = 0
StartCall(h) ==
  /\ pc[h] = "idle"
  /\ pc' = [pc EXCEPT ![h] = "acquire"]
  /\ lastFailure' = NoFailure
  /\ UNCHANGED <<attempt, apiKey, lastError, outcome, upstreamCalls, poolVars>>
  /\ UNCHANGED <<permanent, failedKey>>
  /\ UNCHANGED clientFrame

\* the catch block of one loop iteration, entered with error e, and what
\* follows it up to the next await or the end of the call
Catch(h, e, used) ==
  LET r == getNextKey(keys, currentIndex) IN
  /\ lastError' = [lastError EXCEPT ![h] = e]
  /\ apiKey' = [apiKey EXCEPT ![h] = NoKey]
  /\ IF IsApiKeyError[e] /\ ~r.ok
       THEN \* getNextKey() throws inside the catch block: the call ends
            /\ pc' = [pc EXCEPT ![h] = "done"]
            /\ outcome' = [outcome EXCEPT
                             ![h] = [kind |-> "thrown", err |-> NoValidKeysError]]
            /\ UNCHANGED <<keys, currentIndex, attempt>>
       ELSE /\ IF IsApiKeyError[e]
                 THEN /\ keys' = markKeyFailed(keys, r.key, e)
                      /\ currentIndex' = r.index
                 ELSE UNCHANGED <<keys, currentIndex>>
            /\ IF attempt[h] < maxRetries - 1
                 THEN \* await this.delay(...)
                      /\ pc' = [pc EXCEPT ![h] = "delay"]
                      /\ UNCHANGED <<attempt, outcome>>
                 ELSE \* the loop ends: throw 'Failed after 3 attempts: ...'
                      /\ pc' = [pc EXCEPT ![h] = "done"]
                      /\ attempt' = [attempt EXCEPT ![h] = attempt[h] + 1]
                      /\ outcome' = [outcome EXCEPT
                                       ![h] = [kind |-> "exhausted", err |-> e]]
  /\ lastFailure' =
       IF used = NoKey THEN NoFailure
       ELSE [handler |-> h, used |-> used, err |-> e,
             reported |-> IF IsApiKeyError[e] /\ r.ok THEN r.key ELSE NoKey,
             changed |-> ChangedKeys(keys, keys')]
  /\ permanent' = Observing("permanent",
                     IF IsApiKeyError[e] /\ r.ok /\ IsPermanent[e]
                       THEN permanent \cup {r.key} ELSE permanent, permanent)
  /\ failedKey' = Observing("retry", [failedKey EXCEPT ![h] = used], failedKey)

\* the try block up to the upstream request: getNextKey() and sendMessage
Acquire(h) ==
  LET r == getNextKey(keys, currentIndex) IN
  /\ pc[h] = "acquire"
  /\ IF r.ok
       THEN /\ currentIndex' = r.index
            /\ apiKey' = [apiKey EXCEPT ![h] = r.key]
            /\ upstreamCalls' = [upstreamCalls EXCEPT ![h] = upstreamCalls[h] + 1]
            /\ pc' = [pc EXCEPT ![h] = "upstream"]
            /\ lastFailure' = NoFailure
            /\ failedKey' = [failedKey EXCEPT ![h] = NoKey]
            /\ UNCHANGED <<keys, attempt, lastError, outcome, permanent>>
       ELSE /\ Catch(h, NoValidKeysError, NoKey)
            /\ UNCHANGED upstreamCalls
  /\ UNCHANGED <<rot, callers, lastOp, trans, observe>>
  /\ UNCHANGED clientFrame

\* the upstream request answers: markKeySuccess and return
UpstreamSuccess(h) ==
  /\ pc[h] = "upstream"
  /\ keys' = markKeySuccess(keys, apiKey[h])
  /\ pc' = [pc EXCEPT ![h] = "done"]
  /\ outcome' = [outcome EXCEPT ![h] = [kind |-> "ok", err |-> NoError]]
  /\ apiKey' = [apiKey EXCEPT ![h] = NoKey]
  /\ lastFailure' = NoFailure
  /\ UNCHANGED <<currentIndex, attempt, lastError, upstreamCalls, permanent,
                 failedKey>>
  /\ UNCHANGED <<rot, callers, lastOp, trans, observe>>
  /\ UNCHANGED clientFrame

\* the upstream request fails with error e
UpstreamFailure(h, e) ==
  /\ pc[h] = "upstream"
  /\ Catch(h, e, apiKey[h])
  /\ UNCHANGED upstreamCalls
  /\ UNCHANGED <<rot, callers, lastOp, trans, observe>>
  /\ UNCHANGED clientFrame

\* the delay before the next attempt is over: attempt++
DelayDone(h) ==
  /\ pc[h] = "delay"
  /\ attempt' = [attempt EXCEPT ![h] = attempt[h] + 1]
  /\ pc' = [pc EXCEPT ![h] = "acquire"]
  /\ lastFailure' = NoFailure
  /\ UNCHANGED <<apiKey, lastError, outcome, upstreamCalls, poolVars, permanent,
                 failedKey>>
  /\ UNCHANGED clientFrame

\* the caller has its result; the handler is free for the next request
Finish(h) ==
  /\ pc[h] = "done"
  /\ pc' = [pc EXCEPT ![h] = "idle"]
  /\ attempt' = [attempt EXCEPT ![h] = 0]
  /\ lastError' = [lastError EXCEPT ![h] = NoError]
  /\ outcome' = [outcome EXCEPT ![h] = NoOutcome]
  /\ upstreamCalls' = [upstreamCalls EXCEPT ![h] = 0]
  /\ lastFailure' = NoFailure
  /\ UNCHANGED <<apiKey, poolVars, permanent, failedKey>>
  /\ UNCHANGED clientFrame

ClientNext ==
  \/ \E h \in Handlers : StartCall(h)
  \/ \E h \in Handlers : Acquire(h)
  \/ \E h \in Handlers : UpstreamSuccess(h)
  \/ \E h \in Handlers, e \in UpstreamErrors : UpstreamFailure(h, e)
  \/ \E h \in Handlers : DelayDone(h)
  \/ \E h \in Handlers : Finish(h)

\* ------------------------------------------------------------------------
\* RateLimiter
\* ------------------------------------------------------------------------
\* Date.now() is read from the variable now (milliseconds).  The limiter keeps
\* its counters in a NodeCache: an entry carries its value v and its expiry
\* time t, a lookup of an entry with t < now is a miss, and a set stores the
\* value with t = now + ttl * 1000.
Clients == {"ipA", "ipB"}
NoClient == "none"

\* the configured ceilings (MAX_REQUESTS_PER_MINUTE, MAX_REQUESTS_PER_DAY_PER_IP)
maxRequestsPerMinute == 2
maxRequestsPerDayPerIP == 3
\* checkRateLimit calls followed within one minute bucket
MaxCalls == 4

\* the instants at which the model reads the clock
RateTimes ==
  {0, 1, 59001, 59999, 60000, 60001, 119999, 120000, 86399999, 86400000, 86400001}

EmptyCache == [k \in {} |-> [v |-> 0, t |-> 0]]

cacheHas(c, key, t) == key \in DOMAIN c /\ ~(c[key].t < t)

cacheGet(c, key, t) == c[key].v

cacheSet_msTTL(c, key, v, ttl, t) ==
  [k \in DOMAIN c \cup {key} |-> IF k = key THEN [v |-> v, t |-> t + ttl] ELSE c[k]]

cacheSet(c, key, v, ttl, t) ==
  [k \in DOMAIN c \cup {key} |->
     IF k = key THEN [v |-> v, t |-> t + ttl * 1000] ELSE c[k]]

\* expired entries are misses for every lookup and are deleted by the cache's
\* periodic check; the model drops them when the clock passes their expiry
cachePrune(c, t) == [k \in {x \in DOMAIN c : ~(c[x].t < t)} |-> c[k]]

\* Math.ceil(a / b) for b > 0
ceilDiv(a, b) == 0 - ((0 - a) \div b)

minuteKey(t) == <<"minute", "", t \div 60000>>
\* (a variant with one day counter for all clients)
dayKey_shared(ip, t) == <<"day", "", t \div 86400000>>

dayKey(ip, t) == <<"day", ip, t \div 86400000>>

minuteReset(t) == (t \div 60000) * 60000 + 60000
dayReset(t) == (t \div 86400000) * 86400000 + 86400000

RateLimitInfo(c, key, t, resetTime) ==
  IF cacheHas(c, key, t) THEN cacheGet(c, key, t)
  ELSE [count |-> 0, resetTime |-> resetTime]

overLimit_strict(count, max) == count > max

overLimit(count, max) == count >= max

Increment(data) == [data EXCEPT !.count = data.count + 1]

Rejected(c, data, t, by) ==
  [allowed |-> FALSE, retryAfter |-> ceilDiv(data.resetTime - t, 1000),
   by |-> by, cache |-> c]

checkRateLimit_countsBeforeDayCheck(c, ip, t) ==
  LET minuteData == RateLimitInfo(c, minuteKey(t), t, minuteReset(t))
      dayData == RateLimitInfo(c, dayKey(ip, t), t, dayReset(t))
      c1 == cacheSet(c, minuteKey(t), Increment(minuteData), 60, t)
  IN
  IF overLimit(minuteData.count, maxRequestsPerMinute)
    THEN Rejected(c, minuteData, t, "minute")
  ELSE IF overLimit(dayData.count, maxRequestsPerDayPerIP)
    THEN Rejected(c1, dayData, t, "day")
  ELSE [allowed |-> TRUE, retryAfter |-> 0, by |-> "none",
        cache |-> cacheSet(c1, dayKey(ip, t), Increment(dayData), 86400, t)]

checkRateLimit(c, ip, t) ==
  LET minuteData == RateLimitInfo(c, minuteKey(t), t, minuteReset(t))
      dayData == RateLimitInfo(c, dayKey(ip, t), t, dayReset(t))
  IN
  IF overLimit(minuteData.count, maxRequestsPerMinute)
    THEN Rejected(c, minuteData, t, "minute")
  ELSE IF overLimit(dayData.count, maxRequestsPerDayPerIP)
    THEN Rejected(c, dayData, t, "day")
  ELSE [allowed |-> TRUE, retryAfter |-> 0, by |-> "none",
        cache |-> cacheSet(cacheSet(c, minuteKey(t), Increment(minuteData), 60, t),
                           dayKey(ip, t), Increment(dayData), 86400, t)]

\* the counters as the limiter reads them at time t
MinuteCount(c, t) == RateLimitInfo(c, minuteKey(t), t, minuteReset(t)).count
DayCount(c, ip, t) == RateLimitInfo(c, dayKey(ip, t), t, dayReset(t)).count

NoRL == [ip |-> NoClient, allowed |-> TRUE, retryAfter |-> 0, by |-> "none",
         callNo |-> 0, minuteBefore |-> 0, dayBefore |-> 0, dayLimitHit |-> FALSE]

RateInit ==
  /\ now = 0
  /\ limiterCache = EmptyCache
  /\ minuteCalls = 0
  /\ dayRejected = FALSE
  /\ minuteAllowed = 0
  /\ dayAllowed = [ip \in Clients |-> 0]
  /\ lastRL = NoRL

\* A request handler calls checkRateLimit(ip).  The method is synchronous, so
\* the event loop runs each call to completion before any other handler.
limiterCall(ip) ==
  LET r == checkRateLimit(limiterCache, ip, now) IN
  /\ minuteCalls < MaxCalls
  /\ limiterCache' = r.cache
  /\ minuteCalls' = minuteCalls + 1
  /\ dayRejected' = (dayRejected \/ r.by = "day")
  /\ minuteAllowed' = IF r.allowed THEN minuteAllowed + 1 ELSE minuteAllowed
  /\ dayAllowed' = IF r.allowed THEN [dayAllowed EXCEPT ![ip] = dayAllowed[ip] + 1]
                   ELSE dayAllowed
  /\ lastRL' = [ip |-> ip, allowed |-> r.allowed, retryAfter |-> r.retryAfter,
                by |-> r.by, callNo |-> minuteCalls + 1,
                minuteBefore |-> MinuteCount(limiterCache, now),
                dayBefore |-> DayCount(limiterCache, ip, now),
                dayLimitHit |-> dayRejected]

CheckRateLimit(ip) ==
  /\ limiterCall(ip)
  /\ UNCHANGED <<now, rateFrame>>

\* time passes
RateTick ==
  \E t \in RateTimes :
    /\ t > now
    /\ now' = t
    /\ limiterCache' = cachePrune(limiterCache, t)
    /\ minuteCalls' = IF minuteKey(t) = minuteKey(now) THEN minuteCalls ELSE 0
    /\ dayRejected' = (minuteKey(t) = minuteKey(now) /\ dayRejected)
    /\ minuteAllowed' = IF minuteKey(t) = minuteKey(now) THEN minuteAllowed ELSE 0
    /\ dayAllowed' = IF t \div 86400000 = now \div 86400000 THEN dayAllowed
                     ELSE [ip \in Clients |-> 0]
    /\ lastRL' = NoRL
    /\ UNCHANGED rateFrame

RateNext ==
  \/ \E ip \in Clients : CheckRateLimit(ip)
  \/ RateTick

\* an argument or a property which is absent
Undefined == "undefined"

\* The addresses of the clients, as getClientIP returns them
ClientText ==
  [ipA |-> <<"1","0",".","0",".","0",".","1">>,
   ipB |-> <<"1","0",".","0",".","0",".","1","2">>]

DecimalDigits == <<"0","1","2","3","4","5","6","7","8","9">>

\* `${n}` for an integer n >= 0
RECURSIVE toString(_)
toString(n) ==
  IF n < 10 THEN <<DecimalDigits[n + 1]>>
  ELSE toString(n \div 10) \o <<DecimalDigits[(n % 10) + 1]>>

\* the key of an entry as the cache holds it: `minute:${n}`, `day:${ip}:${n}`
keyString(k) ==
  IF k[1] = "minute"
    THEN <<"m","i","n","u","t","e",":">> \o toString(k[3])
    ELSE <<"d","a","y",":">> \o ClientText[k[2]] \o <<":">> \o toString(k[3])

\* resetRateLimits(ip?): the entries whose key includes ip, or all entries
resetRateLimits(c, ip) ==
  IF ip # Undefined
    THEN [k \in {x \in DOMAIN c : ~includes(keyString(x), ClientText[ip])} |-> c[k]]
    ELSE EmptyCache

ResetRateLimits(ip) ==
  /\ limiterCache' = resetRateLimits(limiterCache, ip)
  /\ UNCHANGED <<minuteCalls, dayRejected, minuteAllowed, dayAllowed, lastRL, now,
                 rateFrame>>

\* the limiter with resets by an administrator
ResetNext ==
  \/ \E ip \in Clients : CheckRateLimit(ip)
  \/ RateTick
  \/ \E ip \in Clients \cup {Undefined} : ResetRateLimits(ip)

\* ------------------------------------------------------------------------
\* ConcurrentCacheManager
\* ------------------------------------------------------------------------
defaultTTL == 3600

\* the settings read from CONCURRENT_REQUESTS
ConcurrentSettings == {1, 2}

\* A request carries the six fields of the fingerprint and fields outside it;
\* "undefined" marks an absent optional field.
FingerprintFields == <<"model", "messages", "temperature", "max_tokens", "top_p", "top_k">>

BaseRequest ==
  [model |-> "gemini-pro", messages |-> "msgsA", temperature |-> "1",
   max_tokens |-> Undefined, top_p |-> "1", top_k |-> Undefined,
   stream |-> "false", user |-> Undefined]

\* the base request and the requests that differ from it in exactly one
\* field; the state holds their names
RequestOf ==
  [R_BASE |-> BaseRequest,
   R_MODEL |-> [BaseRequest EXCEPT !.model = "gemini-flash"],
   R_MESSAGES |-> [BaseRequest EXCEPT !.messages = "msgsB"],
   R_TEMPERATURE |-> [BaseRequest EXCEPT !.temperature = "0"],
   R_MAX_TOKENS |-> [BaseRequest EXCEPT !.max_tokens = "5"],
   R_TOP_P |-> [BaseRequest EXCEPT !.top_p = "0.5"],
   R_TOP_K |-> [BaseRequest EXCEPT !.top_k = "4"],
   R_STREAM |-> [BaseRequest EXCEPT !.stream = "true"],
   R_USER |-> [BaseRequest EXCEPT !.user = "u1"]]

Requests == DOMAIN RequestOf
NoRequest == "R_NONE"

\* the requests the clients of one run send
Workloads == {{"R_BASE", r} : r \in Requests \ {"R_BASE"}}

\* the instants at which the model reads the clock
CacheTimes == {0, 1, 3600000, 3600001}

\* JSON.stringify of an object literal: the properties in the order written,
\* a property whose value is undefined left out
RECURSIVE JSONstringify(_, _, _)
JSONstringify(obj, fields, i) ==
  IF i > Len(fields) THEN <<>>
  ELSE IF obj[fields[i]] = Undefined THEN JSONstringify(obj, fields, i + 1)
  ELSE <<<<fields[i], obj[fields[i]]>>>> \o JSONstringify(obj, fields, i + 1)

\* the digest is taken to be free of collisions
sha256(str) == <<"sha256", str>>

generateCacheKey_noTopK(request) ==
  sha256(JSONstringify(request, SubSeq(FingerprintFields, 1, 5), 1))

generateCacheKey(request) == sha256(JSONstringify(request, FingerprintFields, 1))

\* `${baseCacheKey}_variant_${n}`; the key of the main entry has n = 0
CacheKey(base, n) == [base |-> base, variant |-> n]

\* the main cache key of each request
MainKey == [r \in Requests |-> CacheKey(generateCacheKey(RequestOf[r]), 0)]

\* The completion text of a response is named by the upstream call that
\* produced it: the request it answered and the index of the call in the
\* fan-out of its handleRequest.
NoContent == [req |-> NoRequest, index |-> 0]
Content(request, i) == [req |-> request, index |-> i]

\* What the upstream answers to the i-th call of a fan-out: in the fan-out
\* specification every call gets a text of its own, elsewhere the calls for
\* one request get the same text.
upstreamContent(request, i) ==
  Content(request, IF observe = "fanout" THEN i ELSE 0)

NoResponse == [id |-> 0 - 1, model |-> "", content |-> NoContent]

\* convertResponseToOpenAI: id is `chatcmpl-${Date.now()}`
Response(request, t, content) ==
  [id |-> t, model |-> RequestOf[request].model, content |-> content]

\* The errors a chatCompletion call ends with: 'Failed after 3 attempts: ...'
\* around the last upstream error, or the error getNextKey throws inside the
\* catch block.
CallErrors ==
  {[kind |-> "exhausted", err |-> e] : e \in UpstreamErrors}
    \cup {[kind |-> "thrown", err |-> NoValidKeysError]}

\* Promise.any rejects with an AggregateError once every promise has rejected
AggregateError == [kind |-> "aggregate", err |-> NoError]

getCachedResponseHit(c, cacheKey, t) == enableCache /\ cacheHas(c, cacheKey, t)

getCachedResponse(c, cacheKey, t) == cacheGet(c, cacheKey, t).response

setCachedResponse(c, cacheKey, response, t) ==
  IF ~enableCache THEN c
  ELSE cacheSet(c, cacheKey,
                [response |-> response, timestamp |-> t, requestHash |-> cacheKey],
                defaultTTL, t)

Pending == [state |-> "pending", value |-> NoResponse]
RejectedPromise == [state |-> "rejected", value |-> NoResponse]
Fulfilled(response) == [state |-> "fulfilled", value |-> response]

IdleCall == [phase |-> "idle", req |-> NoRequest, promises |-> <<>>,
             first |-> NoResponse]

AllSettled(ps) == \A i \in 1..Len(ps) : ps[i].state # "pending"
\* (a variant which gives up at the first rejection, as Promise.all would)
AllRejected_any(ps) == \E i \in 1..Len(ps) : ps[i].state = "rejected"

AllRejected(ps) == \A i \in 1..Len(ps) : ps[i].state = "rejected"

\* (a variant which caches the value of every settled promise but the first)
RECURSIVE cacheAdditional_everySettled(_, _, _, _, _, _, _)
cacheAdditional_everySettled(c, results, i, successCount, first, base, t) ==
  IF i > Len(results) THEN c
  ELSE IF results[i].value.id # first.id
    THEN cacheAdditional_everySettled(
           setCachedResponse(c, CacheKey(base, successCount + 1), results[i].value, t),
           results, i + 1, successCount + 1, first, base, t)
  ELSE cacheAdditional_everySettled(c, results, i + 1, successCount, first, base, t)

\* (a variant which caches the response handleRequest returned once more)
RECURSIVE cacheAdditional_withFirst(_, _, _, _, _, _, _)
cacheAdditional_withFirst(c, results, i, successCount, first, base, t) ==
  IF i > Len(results) THEN c
  ELSE IF results[i].state = "fulfilled"
    THEN cacheAdditional_withFirst(
           setCachedResponse(c, CacheKey(base, successCount + 1), results[i].value, t),
           results, i + 1, successCount + 1, first, base, t)
  ELSE cacheAdditional_withFirst(c, results, i + 1, successCount, first, base, t)

\* handleAdditionalResponses once every promise has settled: results.forEach
RECURSIVE cacheAdditional(_, _, _, _, _, _, _)
cacheAdditional(c, results, i, successCount, first, base, t) ==
  IF i > Len(results) THEN c
  ELSE IF results[i].state = "fulfilled" /\ results[i].value.id # first.id
    THEN cacheAdditional(
           setCachedResponse(c, CacheKey(base, successCount + 1), results[i].value, t),
           results, i + 1, successCount + 1, first, base, t)
  ELSE cacheAdditional(c, results, i + 1, successCount, first, base, t)

\* kind: hit, miss, return, throw, or background (a call settles after
\* handleRequest has returned); error: what handleRequest throws; cause: the
\* error of the chatCompletion call that has just failed; settled: the
\* handler's promises when the last of them has just settled
\* (error, cause and settled are recorded by the fan-out specification only)
Event(kind, request, resp, calls, error, cause, settled) ==
  [kind |-> kind, req |-> request, resp |-> resp, calls |-> calls,
   error |-> IF observe = "fanout" THEN error ELSE NoOutcome,
   cause |-> IF observe = "fanout" THEN cause ELSE NoOutcome,
   settled |-> IF observe = "fanout" THEN settled ELSE <<>>]

NoEvent ==
  [kind |-> "none", req |-> NoRequest, resp |-> NoResponse, calls |-> 0,
   error |-> NoOutcome, cause |-> NoOutcome, settled |-> <<>>]

SettledOf(ps) == IF AllSettled(ps) THEN ps ELSE <<>>
NotStored == [r \in {} |-> [at |-> 0, resp |-> NoResponse]]

CacheInit ==
  /\ enableCache \in BOOLEAN
  /\ concurrentRequests \in ConcurrentSettings
  /\ \E flag \in BOOLEAN : enableConcurrent = (flag /\ concurrentRequests > 1)
  /\ workload \in Workloads
  /\ responseCache = EmptyCache
  /\ call = [h \in Handlers |-> IdleCall]
  /\ lastEvent = NoEvent
  /\ stored = NotStored

cacheConfig == <<enableCache, concurrentRequests, enableConcurrent, workload>>

\* handleRequest(request) up to its first await
handleRequestCall(h, request) ==
  LET cacheKey == MainKey[request] IN
  /\ call[h].phase = "idle"
  /\ request \in workload
  /\ IF getCachedResponseHit(responseCache, cacheKey, now)
       THEN /\ lastEvent' = Event("hit", request,
                                  getCachedResponse(responseCache, cacheKey, now),
                                  0, NoOutcome, NoOutcome, <<>>)
            /\ UNCHANGED call
       ELSE IF ~enableConcurrent \/ concurrentRequests <= 1
       THEN \* await geminiClient.chatCompletion(request)
            /\ call' = [call EXCEPT ![h] = [phase |-> "single", req |-> request,
                                            promises |-> <<Pending>>,
                                            first |-> NoResponse]]
            /\ lastEvent' = Event("miss", request, NoResponse, 1,
                                  NoOutcome, NoOutcome, <<>>)
       ELSE \* handleConcurrentRequests: await Promise.any(promises)
            /\ call' = [call EXCEPT
                          ![h] = [phase |-> "racing", req |-> request,
                                  promises |-> [i \in 1..concurrentRequests |-> Pending],
                                  first |-> NoResponse]]
            /\ lastEvent' = Event("miss", request, NoResponse, concurrentRequests,
                                  NoOutcome, NoOutcome, <<>>)
  /\ UNCHANGED <<responseCache, stored, cacheConfig>>

HandleRequest(h, request) ==
  /\ handleRequestCall(h, request)
  /\ UNCHANGED <<now, cacheFrame>>

\* what handleAdditionalResponses caches once all promises of h have settled
Additional(c, ps, first, request) ==
  IF AllSettled(ps)
    THEN cacheAdditional(c, ps, 1, 0, first, MainKey[request].base, now)
    ELSE c

\* the i-th chatCompletion of handler h returns a response
Fulfil(h, i) ==
  LET c == call[h]
      response == Response(c.req, now, upstreamContent(c.req, i))
      cacheKey == MainKey[c.req]
      ps == [c.promises EXCEPT ![i] = Fulfilled(response)]
  IN
  /\ c.phase # "idle"
  /\ i \in 1..Len(c.promises)
  /\ c.promises[i].state = "pending"
  /\ IF c.phase = "additional"
       THEN \* the caller has its response; only allSettled is awaited
            /\ responseCache' = Additional(responseCache, ps, c.first, c.req)
            /\ lastEvent' = Event("background", c.req, c.first, 0,
                                  NoOutcome, NoOutcome, SettledOf(ps))
            /\ UNCHANGED stored
       ELSE \* the response handleRequest returns
            /\ responseCache' =
                 Additional(setCachedResponse(responseCache, cacheKey, response, now),
                            IF c.phase = "racing" THEN ps ELSE <<>>, response, c.req)
            /\ lastEvent' = Event("return", c.req, response, 0,
                                  NoOutcome, NoOutcome, SettledOf(ps))
            /\ stored' = [r \in DOMAIN stored \cup {c.req} |->
                            IF r = c.req THEN [at |-> now, resp |-> response]
                            ELSE stored[r]]
  /\ call' = [call EXCEPT
                ![h] = IF c.phase = "single" \/ AllSettled(ps) THEN IdleCall
                       ELSE [phase |-> "additional", req |-> c.req, promises |-> ps,
                             first |-> IF c.phase = "racing" THEN response
                                       ELSE c.first]]
  /\ UNCHANGED <<now, cacheConfig, cacheFrame>>

\* the i-th chatCompletion of handler h throws e
Reject(h, i, e) ==
  LET c == call[h]
      ps == [c.promises EXCEPT ![i] = RejectedPromise]
  IN
  /\ c.phase # "idle"
  /\ i \in 1..Len(c.promises)
  /\ c.promises[i].state = "pending"
  /\ IF c.phase = "additional"
       THEN /\ responseCache' = Additional(responseCache, ps, c.first, c.req)
            /\ lastEvent' = Event("background", c.req, c.first, 0,
                                  NoOutcome, e, SettledOf(ps))
       ELSE \* handleRequest throws: the error of the single call, or the
            \* AggregateError once every call of the fan-out has thrown
            /\ UNCHANGED responseCache
            /\ lastEvent' = IF AllRejected(ps)
                              THEN Event("throw", c.req, NoResponse, 0,
                                         IF c.phase = "single" THEN e
                                         ELSE AggregateError, e, ps)
                              ELSE NoEvent
  /\ call' = [call EXCEPT
                ![h] = IF AllSettled(ps) THEN IdleCall
                       ELSE [c EXCEPT !.promises = ps]]
  /\ UNCHANGED <<stored, now, cacheConfig, cacheFrame>>

\* time passes
CacheTick ==
  \E t \in CacheTimes :
    /\ t > now
    /\ now' = t
    /\ responseCache' = cachePrune(responseCache, t)
    /\ stored' = [r \in {q \in DOMAIN stored :
                             ~(stored[q].at + defaultTTL * 1000 < t)} |-> stored[r]]
    /\ lastEvent' = NoEvent
    /\ UNCHANGED <<call, cacheConfig, cacheFrame>>

CacheNext ==
  \/ \E h \in Handlers, request \in Requests : HandleRequest(h, request)
  \/ \E h \in Handlers, i \in ConcurrentSettings : Fulfil(h, i)
  \/ \E h \in Handlers, i \in ConcurrentSettings, e \in CallErrors : Reject(h, i, e)
  \/ CacheTick

\* ------------------------------------------------------------------------
\* Streaming responses (route.ts, FakeStreamingManager, chatCompletionStream)
\* ------------------------------------------------------------------------
MaxKeepAlive == 2
MaxStreamChunks == 2

maxChunkSize == 10

isSpace(ch) == ch \in {" ", "\t", "\n"}

\* !s.trim()
isBlank(s) == \A i \in 1..Len(s) : isSpace(s[i])

\* s.split(/\s+/).filter(Boolean).length
wordCount(s) ==
  Cardinality({i \in 1..Len(s) : ~isSpace(s[i]) /\ (i = 1 \/ isSpace(s[i - 1]))})

\* content.split(/(\s+)/): the words and, between them, the separators; an
\* empty word stands before a leading and after a trailing separator
RECURSIVE split(_, _, _, _)
split(content, i, cur, tokens) ==
  LET inSeparator == cur # <<>> /\ isSpace(cur[1]) IN
  IF i > Len(content)
    THEN IF inSeparator THEN tokens \o <<cur, <<>>>> ELSE Append(tokens, cur)
  ELSE IF isSpace(content[i]) = inSeparator
    THEN split(content, i + 1, Append(cur, content[i]), tokens)
  ELSE split(content, i + 1, <<content[i]>>, Append(tokens, cur))

\* the for loop of splitIntoChunks and the push of the remaining content
RECURSIVE chunkWords(_, _, _, _)
chunkWords(words, i, currentChunk, cs) ==
  IF i > Len(words)
    THEN IF ~isBlank(currentChunk) THEN Append(cs, currentChunk) ELSE cs
  ELSE IF wordCount(currentChunk) >= maxChunkSize /\ ~isBlank(currentChunk)
    THEN chunkWords(words, i + 1, words[i], Append(cs, currentChunk))
  ELSE chunkWords(words, i + 1, currentChunk \o words[i], cs)

NotBlank(chunk) == ~isBlank(chunk)

\* (a variant which sends the whole text as one chunk)
splitIntoChunks_whole(content) == SelectSeq(<<content>>, NotBlank)

splitIntoChunks(content) ==
  SelectSeq(chunkWords(split(content, 1, <<>>, <<>>), 1, <<>>, <<>>), NotBlank)

\* n words separated by sep
RECURSIVE Words(_, _)
Words(n, sep) ==
  IF n = 0 THEN <<>>
  ELSE IF n = 1 THEN <<"w">>
  ELSE Words(n - 1, sep) \o sep \o <<"w">>

\* the completion texts the upstream returns
TextOf ==
  [T_EMPTY |-> <<>>,
   T_BLANK |-> <<" ", "\n">>,
   T_1 |-> Words(1, <<" ">>),
   T_10 |-> Words(10, <<" ">>),
   T_10_TRAILING |-> Words(10, <<" ">>) \o <<"\n">>,
   T_11 |-> Words(11, <<" ">>),
   T_11_LEADING |-> <<" ">> \o Words(11, <<"\n", " ">>),
   T_20 |-> Words(20, <<"\t">>),
   T_21 |-> Words(21, <<" ">>)]

Texts == DOMAIN TextOf
NoText == "T_NONE"

\* the frames written to the stream: `data: ${JSON.stringify(chunk)}\n\n`
\* with the properties of the chunk that matter, and `data: [DONE]\n\n`
Frame(data, choices, hasContent, content, finish_reason, usage, error) ==
  [data |-> data, choices |-> choices, hasContent |-> hasContent,
   content |-> content, finish_reason |-> finish_reason, usage |-> usage,
   error |-> error]

keepAliveChunk == Frame("chunk", TRUE, FALSE, <<>>, "null", FALSE, NoOutcome)
streamChunk(chunk) == Frame("chunk", TRUE, TRUE, chunk, "null", FALSE, NoOutcome)
\* handleFakeStreaming: finish_reason of the response, or 'stop'; usage of the
\* response
finalChunk == Frame("chunk", TRUE, FALSE, <<>>, "stop", TRUE, NoOutcome)
\* chatCompletionStream: finish_reason 'stop', no usage
sseFinalChunk == Frame("chunk", TRUE, FALSE, <<>>, "stop", FALSE, NoOutcome)
\* the catch block of handleFakeStreaming
errorChunk(error) == Frame("chunk", TRUE, FALSE, <<>>, "error", FALSE, error)
\* the catch block of the route's start()
routeErrorChunk(error) == Frame("chunk", FALSE, FALSE, <<>>, "absent", FALSE, error)
Done == Frame("[DONE]", FALSE, FALSE, <<>>, "absent", FALSE, NoOutcome)

NewController == [queue |-> <<>>, closed |-> 0, late |-> 0]

\* controller.enqueue(frame): throws once the stream is closed
enqueue(c, frame) ==
  IF c.closed > 0 THEN [c EXCEPT !.late = @ + 1]
  ELSE [c EXCEPT !.queue = Append(@, frame)]

RECURSIVE enqueueAll(_, _)
enqueueAll(c, frames) ==
  IF frames = <<>> THEN c ELSE enqueueAll(enqueue(c, Head(frames)), Tail(frames))

\* (a variant which leaves the stream open)
close_never(c) == c

\* controller.close()
close(c) == [c EXCEPT !.closed = @ + 1]

\* the catch and finally blocks of start()
routeCatch(c, error) == close(enqueue(c, routeErrorChunk(error)))

NoUpstream == [kind |-> "none", text |-> NoText]

KeepAlives(c) == Cardinality({i \in 1..Len(c.queue) : c.queue[i] = keepAliveChunk})
Deltas(c) == Cardinality({i \in 1..Len(c.queue) : c.queue[i].hasContent})

StreamInit ==
  /\ enableFakeStreaming \in BOOLEAN
  /\ controller = NewController
  /\ streamPc = "idle"
  /\ keepAliveTimer = FALSE
  /\ completed = FALSE
  /\ chunks = <<>>
  /\ streamAttempt = 0
  /\ upstream = NoUpstream
  /\ thrown = NoOutcome
  /\ origin = <<>>

\* start(controller) up to its first await
streamStartCall ==
  /\ streamPc = "idle"
  /\ IF enableFakeStreaming
       THEN \* handleFakeStreaming: setInterval, await chatCompletion
            /\ keepAliveTimer' = TRUE
            /\ streamPc' = "completion"
       ELSE \* chatCompletionStream: the first attempt
            /\ streamPc' = "attempt"
            /\ UNCHANGED keepAliveTimer
  /\ UNCHANGED <<origin, enableFakeStreaming, controller, completed, chunks, streamAttempt,
                 upstream, thrown>>

\* (a variant which leaves the timer running)
clearInterval_not(timer) == timer

\* if (keepAliveTimer) { clearInterval(keepAliveTimer); keepAliveTimer = null; }
clearInterval(timer) == FALSE

StreamStart ==
  /\ streamStartCall
  /\ UNCHANGED streamFrame

\* the interval timer fires
KeepAlive ==
  /\ keepAliveTimer
  /\ KeepAlives(controller) < MaxKeepAlive
  /\ controller' = IF ~completed THEN enqueue(controller, keepAliveChunk)
                   ELSE controller
  /\ UNCHANGED <<origin, enableFakeStreaming, streamPc, keepAliveTimer, completed, chunks,
                 streamAttempt, upstream, thrown, streamFrame>>

\* the final chunk and the sentinel of handleFakeStreaming, its return, and
\* the finally block of start()
fakeFinish(c) == close(enqueueAll(c, <<finalChunk, Done>>))

\* chatCompletion returns a response with text t
FakeResolve(t) ==
  LET content == TextOf[t]
      cs == IF content # <<>> THEN splitIntoChunks(content) ELSE <<>>
  IN
  /\ streamPc = "completion"
  /\ completed' = TRUE
  /\ keepAliveTimer' = clearInterval(keepAliveTimer)
  /\ upstream' = [kind |-> "success", text |-> t]
  /\ IF cs # <<>>
       THEN /\ controller' = enqueue(controller, streamChunk(Head(cs)))
            /\ chunks' = Tail(cs)
            /\ streamPc' = "delay"
       ELSE /\ controller' = fakeFinish(controller)
            /\ chunks' = <<>>
            /\ streamPc' = "closed"
  /\ UNCHANGED <<origin, enableFakeStreaming, streamAttempt, thrown, streamFrame>>

\* delay(50) is over: the next chunk, or the end of the response
FakeDelayDone ==
  /\ streamPc = "delay"
  /\ IF chunks # <<>>
       THEN /\ controller' = enqueue(controller, streamChunk(Head(chunks)))
            /\ chunks' = Tail(chunks)
            /\ UNCHANGED streamPc
       ELSE /\ controller' = fakeFinish(controller)
            /\ streamPc' = "closed"
            /\ UNCHANGED chunks
  /\ UNCHANGED <<origin, enableFakeStreaming, keepAliveTimer, completed, streamAttempt,
                 upstream, thrown, streamFrame>>

\* chatCompletion throws error: the catch block of handleFakeStreaming, which
\* throws it again, and the catch and finally blocks of start()
FakeReject(error) ==
  /\ streamPc = "completion"
  /\ completed' = TRUE
  /\ keepAliveTimer' = clearInterval(keepAliveTimer)
  /\ upstream' = [kind |-> "failure", text |-> NoText]
  /\ thrown' = error
  /\ controller' = routeCatch(enqueueAll(controller, <<errorChunk(error), Done>>),
                              error)
  /\ streamPc' = "closed"
  /\ UNCHANGED <<origin, enableFakeStreaming, chunks, streamAttempt, streamFrame>>

\* what chatCompletionStream does with the error of an attempt: the catch
\* block, where getNextKey may throw, then the delay, or the throw after the
\* loop; what it throws is handled by start()
StreamCatch(e, keyThrows) ==
  IF IsApiKeyError[e] /\ keyThrows
    THEN /\ thrown' = [kind |-> "thrown", err |-> NoValidKeysError]
         /\ controller' = routeCatch(controller, thrown')
         /\ streamPc' = "closed"
         /\ upstream' = [kind |-> "failure", text |-> NoText]
  ELSE IF streamAttempt < maxRetries - 1
    THEN /\ streamPc' = "retryDelay"
         /\ UNCHANGED <<thrown, controller, upstream>>
  ELSE /\ thrown' = [kind |-> "exhausted", err |-> e]
       /\ controller' = routeCatch(controller, thrown')
       /\ streamPc' = "closed"
       /\ upstream' = [kind |-> "failure", text |-> NoText]

\* an attempt begins: getNextKey returns a credential or throws
StreamAcquire(ok) ==
  /\ streamPc = "attempt"
  /\ IF ok
       THEN /\ streamPc' = "connect"
            /\ UNCHANGED <<thrown, controller, upstream>>
       ELSE StreamCatch(NoValidKeysError, TRUE)
  /\ UNCHANGED <<origin, enableFakeStreaming, keepAliveTimer, completed, chunks,
                 streamAttempt, streamFrame>>

\* sendMessageStream returns the stream of the upstream
StreamConnect ==
  /\ streamPc = "connect"
  /\ streamPc' = "streaming"
  /\ UNCHANGED <<origin, enableFakeStreaming, controller, keepAliveTimer, completed, chunks,
                 streamAttempt, upstream, thrown, streamFrame>>

\* the upstream sends a chunk with text: chatCompletionStream yields it and
\* start() enqueues it
StreamChunk(text) ==
  /\ streamPc = "streaming"
  /\ Deltas(controller) < MaxStreamChunks
  /\ controller' = IF text # <<>> THEN enqueue(controller, streamChunk(text))
                   ELSE controller
  /\ origin' = IF text # <<>> THEN Append(origin, streamAttempt) ELSE origin
  /\ UNCHANGED <<enableFakeStreaming, streamPc, keepAliveTimer, completed, chunks,
                 streamAttempt, upstream, thrown, streamFrame>>

\* the stream of the upstream ends: the final chunk, the sentinel, the return
\* of the generator and the finally block of start()
StreamEnd ==
  /\ streamPc = "streaming"
  /\ controller' = close(enqueueAll(controller, <<sseFinalChunk, Done>>))
  /\ upstream' = [kind |-> "success", text |-> NoText]
  /\ streamPc' = "closed"
  /\ UNCHANGED <<origin, enableFakeStreaming, keepAliveTimer, completed, chunks,
                 streamAttempt, thrown, streamFrame>>

\* sendMessageStream or the stream of the upstream fails with e
StreamFail(e, keyThrows) ==
  /\ streamPc \in {"connect", "streaming"}
  /\ StreamCatch(e, keyThrows)
  /\ UNCHANGED <<origin, enableFakeStreaming, keepAliveTimer, completed, chunks,
                 streamAttempt, streamFrame>>

\* the delay before the next attempt is over
StreamDelayDone ==
  /\ streamPc = "retryDelay"
  /\ streamAttempt' = streamAttempt + 1
  /\ streamPc' = "attempt"
  /\ UNCHANGED <<origin, enableFakeStreaming, controller, keepAliveTimer, completed, chunks,
                 upstream, thrown, streamFrame>>

StreamNext ==
  \/ StreamStart
  \/ KeepAlive
  \/ \E t \in Texts : FakeResolve(t)
  \/ FakeDelayDone
  \/ \E error \in CallErrors : FakeReject(error)
  \/ \E ok \in BOOLEAN : StreamAcquire(ok)
  \/ StreamConnect
  \/ \E text \in {<<>>, <<"w">>} : StreamChunk(text)
  \/ StreamEnd
  \/ \E e \in UpstreamErrors, keyThrows \in BOOLEAN : StreamFail(e, keyThrows)
  \/ StreamDelayDone

\* ------------------------------------------------------------------------
\* The answer of the route to a non-streaming request
\* ------------------------------------------------------------------------
\* error.message of what handleRequest throws
errorMessage(error) ==
  IF error.kind = "exhausted"
    THEN \* `Failed after ${this.maxRetries} attempts: ${lastError?.message}`
         <<"F","a","i","l","e","d"," ","a","f","t","e","r"," ","3"," ","a","t","t","e","m","p","t","s",":"," ">>
           \o ErrText[error.err]
  ELSE IF error.kind = "thrown" THEN ErrText[error.err]
  ELSE \* the AggregateError of Promise.any
       <<"A","l","l"," ","p","r","o","m","i","s","e","s"," ","w","e","r","e"," ","r","e","j","e","c","t","e","d">>

\* the catch block of POST: the status code for an error with this message
statusCode(message) ==
  IF includes(message, <<"I","n","v","a","l","i","d"," ","r","e","q","u","e","s","t">>) THEN 400
  ELSE IF includes(message, <<"N","o"," ","v","a","l","i","d">>) THEN 503
  ELSE 500

\* the status of the answer to the request whose handleRequest has just
\* returned or thrown (0: no answer is being given)
routeStatus(event) ==
  IF event.kind \in {"hit", "return"} THEN 200
  ELSE IF event.kind = "throw" THEN statusCode(errorMessage(event.error))
  ELSE 0

\* ------------------------------------------------------------------------
\* The route: rate-limit gate, authentication, body validation, dispatch
\* ------------------------------------------------------------------------
\* process.env.PASSWORD
PasswordOf == [P_UNSET |-> <<>>, P_SET |-> <<"p","w">>]

Null == [null |-> TRUE, value |-> <<>>]
String(str) == [null |-> FALSE, value |-> str]

\* request.headers.get('Authorization')
HeaderOf ==
  [H_ABSENT |-> Null,
   H_BEARER_SECRET |-> String(<<"B","e","a","r","e","r"," ","p","w">>),
   H_BEARER_OTHER |-> String(<<"B","e","a","r","e","r"," ","p","x">>),
   H_BEARER_LONGER |-> String(<<"B","e","a","r","e","r"," ","p","w","x">>),
   H_BEARER_ONLY |-> String(<<"B","e","a","r","e","r">>),
   H_LOWER_SCHEME |-> String(<<"b","e","a","r","e","r"," ","p","w">>),
   H_RAW_SECRET |-> String(<<"p","w">>)]

Headers == DOMAIN HeaderOf

\* authHeader.substring(7), or the header itself, or null
extractApiKey(authHeader) ==
  IF authHeader.null \/ authHeader.value = <<>> THEN Null
  ELSE IF startsWith(authHeader.value, <<"B","e","a","r","e","r"," ">>)
    THEN String(SubSeq(authHeader.value, 8, Len(authHeader.value)))
  ELSE authHeader

\* (a variant which lets every request pass)
validateApiKey_open(token, requiredPassword) == TRUE

validateApiKey(token, requiredPassword) ==
  IF requiredPassword = <<>> THEN TRUE
  ELSE ~token.null /\ token.value = requiredPassword

Authenticates == [p \in DOMAIN PasswordOf |->
                   [a \in Headers |->
                      validateApiKey(extractApiKey(HeaderOf[a]), PasswordOf[p])]]

\* bodies which are not chat-completion requests: no model, and a
\* temperature above 2
InvalidBodyOf ==
  [B_NO_MODEL |-> [hasModel |-> FALSE, temperature |-> 1],
   B_TEMPERATURE_3 |-> [hasModel |-> TRUE, temperature |-> 3]]

Bodies == Requests \cup DOMAIN InvalidBodyOf

\* ChatCompletionRequestSchema.parse succeeds
schemaAccepts(body) ==
  \/ body \in Requests
  \/ /\ InvalidBodyOf[body].hasModel
     /\ InvalidBodyOf[body].temperature >= 0
     /\ InvalidBodyOf[body].temperature <= 2

NoHeader == "H_NONE"

\* status 0: no answer has been given, the request is on its way
Answer(h, ip, header, status, code, retryAfter) ==
  [handler |-> h, ip |-> ip, header |-> header, status |-> status, code |-> code,
   retryAfter |-> retryAfter]

NoAnswer == Answer("none", NoClient, NoHeader, 0, "none", 0)

GateInit ==
  /\ password \in DOMAIN PasswordOf
  /\ gate = [h \in Handlers |-> "idle"]
  /\ answer = NoAnswer

\* (a variant which looks at the password before the limiter's result)
post_passwordFirst(h, ip, header) ==
  LET r == checkRateLimit(limiterCache, ip, now) IN
  /\ gate[h] = "idle"
  /\ call[h].phase = "idle"
  /\ limiterCall(ip)
  /\ IF ~Authenticates[password][header]
       THEN /\ answer' = Answer(h, ip, header, 401, "invalid_api_key", 0)
            /\ UNCHANGED gate
       ELSE IF ~r.allowed
       THEN /\ answer' = Answer(h, ip, header, 429, "rate_limit_exceeded",
                                r.retryAfter)
            /\ UNCHANGED gate
       ELSE /\ answer' = Answer(h, ip, header, 0, "none", 0)
            /\ gate' = [gate EXCEPT ![h] = "json"]

\* (a variant which asks the limiter only once the password has been accepted)
post_passwordBeforeLimiter(h, ip, header) ==
  LET r == checkRateLimit(limiterCache, ip, now) IN
  /\ gate[h] = "idle"
  /\ call[h].phase = "idle"
  /\ IF ~Authenticates[password][header]
       THEN /\ answer' = Answer(h, ip, header, 401, "invalid_api_key", 0)
            /\ UNCHANGED <<gate, rateVars>>
       ELSE /\ limiterCall(ip)
            /\ IF ~r.allowed
                 THEN /\ answer' = Answer(h, ip, header, 429, "rate_limit_exceeded",
                                          r.retryAfter)
                      /\ UNCHANGED gate
                 ELSE /\ answer' = Answer(h, ip, header, 0, "none", 0)
                      /\ gate' = [gate EXCEPT ![h] = "json"]

\* POST up to `await request.json()`: the rate limiter, then the password
post(h, ip, header) ==
  LET r == checkRateLimit(limiterCache, ip, now) IN
  /\ gate[h] = "idle"
  /\ call[h].phase = "idle"
  /\ limiterCall(ip)
  /\ IF ~r.allowed
       THEN \* 'Retry-After': rateLimitResult.retryAfter?.toString() || '60'
            /\ answer' = Answer(h, ip, header, 429, "rate_limit_exceeded",
                                r.retryAfter)
            /\ UNCHANGED gate
       ELSE IF ~Authenticates[password][header]
       THEN /\ answer' = Answer(h, ip, header, 401, "invalid_api_key", 0)
            /\ UNCHANGED gate
       ELSE /\ answer' = Answer(h, ip, header, 0, "none", 0)
            /\ gate' = [gate EXCEPT ![h] = "json"]

Post(h, ip, header) ==
  /\ post(h, ip, header)
  /\ UNCHANGED <<password, now, poolVars, clientVars, cacheVars, streamVars,
                 disguiseVars, validation>>

\* the body has arrived: validateChatCompletionRequest, then the streaming
\* response or handleRequest; the catch block answers an invalid body
Body(h, body) ==
  /\ gate[h] = "json"
  /\ gate' = [gate EXCEPT ![h] = "idle"]
  /\ IF ~schemaAccepts(body)
       THEN /\ answer' = Answer(h, NoClient, NoHeader,
                                statusCode(<<"I","n","v","a","l","i","d"," ","r","e","q","u","e","s","t",":"," ","m","o","d","e","l",":"," ","R","e","q","u","i","r","e","d">>), "invalid_request", 0)
            /\ UNCHANGED <<cacheVars, streamVars>>
       ELSE IF RequestOf[body].stream = "true"
       THEN /\ streamStartCall
            /\ answer' = Answer(h, NoClient, NoHeader, 200, "stream", 0)
            /\ UNCHANGED cacheVars
       ELSE /\ handleRequestCall(h, body)
            /\ answer' = NoAnswer
            /\ UNCHANGED streamVars
  /\ UNCHANGED <<password, now, poolVars, clientVars, rateVars, disguiseVars,
                 validation>>

GateTimes == {0, 1, 60000}

\* time passes
GateTick ==
  \E t \in GateTimes :
    /\ t > now
    /\ now' = t
    /\ limiterCache' = cachePrune(limiterCache, t)
    /\ minuteCalls' = IF minuteKey(t) = minuteKey(now) THEN minuteCalls ELSE 0
    /\ dayRejected' = (minuteKey(t) = minuteKey(now) /\ dayRejected)
    /\ minuteAllowed' = IF minuteKey(t) = minuteKey(now) THEN minuteAllowed ELSE 0
    /\ UNCHANGED dayAllowed
    /\ lastRL' = NoRL
    /\ responseCache' = cachePrune(responseCache, t)
    /\ answer' = NoAnswer
    /\ UNCHANGED <<password, gate, enableCache, concurrentRequests, enableConcurrent,
                   workload, call, lastEvent, stored, poolVars, clientVars,
                   streamVars, disguiseVars, validation>>

GateNext ==
  \/ \E h \in Handlers, ip \in Clients, header \in Headers : Post(h, ip, header)
  \/ \E h \in Handlers, body \in Bodies : Body(h, body)
  \/ \E h \in Handlers, i \in ConcurrentSettings : Fulfil(h, i)
  \/ \E h \in Handlers, i \in ConcurrentSettings, e \in CallErrors : Reject(h, i, e)
  \/ GateTick

\* ------------------------------------------------------------------------
\* DisguiseManager and GeminiClient.convertMessagesToGemini
\* ------------------------------------------------------------------------
\* Texts are tuples of characters; a sentence which the disguise inserts is
\* one element of the tuple.
MaxMessages == 3      \* messages of a request

disguiseTemplates ==
  <<"Please note that this is a technical inquiry for research purposes.",
    "This request is part of an academic study on natural language processing.">>
randomPhrases ==
  <<"Additionally, please ensure accuracy in your response.",
    "I appreciate your assistance with this matter.">>
contexts == <<"For system integration testing,", "In the context of API validation,">>

\* the values Math.random() takes in one call of addDisguiseToMessage followed
\* by addFormattingVariations: the placement, the three decisions of
\* generateDisguiseElements with the sentences picked, and the variation
Draw(placement, template, phrase, context, variation) ==
  [placement |-> placement, template |-> template, phrase |-> phrase,
   context |-> context, variation |-> variation]

Draws ==
  {Draw("both", 1, 2, 0, 0), Draw("end", 0, 1, 0, 1),
   Draw("begin", 2, 0, 1, 2), Draw("begin", 0, 0, 0, 3)}

NoDraw == Draw("none", 0, 0, 0, 0)

generateDisguiseElements(draw) ==
  LET prefix0 == IF draw.template > 0 THEN <<disguiseTemplates[draw.template]>>
                 ELSE <<>>
      suffix == IF draw.phrase > 0 THEN <<randomPhrases[draw.phrase]>> ELSE <<>>
      technicalContext == <<contexts[draw.context]>>
      prefix == IF draw.context = 0 THEN prefix0
                ELSE IF prefix0 # <<>> THEN prefix0 \o <<" ">> \o technicalContext
                ELSE technicalContext
  IN [prefix |-> prefix, suffix |-> suffix]

\* (a variant which does not look at the flag)
addDisguiseToMessage_always(content, draw) ==
  LET disguiseElements == generateDisguiseElements(draw) IN
  IF draw.placement = "both"
    THEN disguiseElements.prefix \o <<" ">> \o content \o <<" ">>
           \o disguiseElements.suffix
  ELSE IF draw.placement = "end"
    THEN content \o <<" ">> \o disguiseElements.suffix
  ELSE disguiseElements.prefix \o <<" ">> \o content

addDisguiseToMessage(content, draw) ==
  IF ~enableDisguise THEN content
  ELSE LET disguiseElements == generateDisguiseElements(draw) IN
       IF draw.placement = "both"
         THEN disguiseElements.prefix \o <<" ">> \o content \o <<" ">>
                \o disguiseElements.suffix
       ELSE IF draw.placement = "end"
         THEN content \o <<" ">> \o disguiseElements.suffix
       ELSE disguiseElements.prefix \o <<" ">> \o content

\* content.replace(/c /g, to) for a character c
RECURSIVE replaceBeforeSpace(_, _, _)
replaceBeforeSpace(s, c, to) ==
  IF Len(s) < 2 THEN s
  ELSE IF s[1] = c /\ s[2] = " "
    THEN to \o replaceBeforeSpace(SubSeq(s, 3, Len(s)), c, to)
  ELSE <<s[1]>> \o replaceBeforeSpace(Tail(s), c, to)

addFormattingVariations(content, draw) ==
  IF ~enableDisguise THEN content
  ELSE LET variations ==
             <<content,
               replaceBeforeSpace(content, ".", <<".", " ", " ">>),
               replaceBeforeSpace(content, "?", <<"?", " ">>),
               replaceBeforeSpace(content, "!", <<"!", " ">>)>>
       IN variations[draw.variation + 1]

\* message contents: a string, or an array of parts
StringContent(text) == [string |-> TRUE, text |-> text]
ArrayContent(text) == [string |-> FALSE, text |-> text]

\* JSON.stringify of an array with one text part
stringify(content) ==
  <<"[", "{", "\"type\":\"text\",\"text\":", "\"">> \o content.text \o <<"\"", "}", "]">>

Contents ==
  {StringContent(<<"a", ".", " ", "b">>), StringContent(<<"c", "?", " ", "d">>),
   ArrayContent(<<"e">>)}

Roles == {"user", "assistant", "system"}

Message(role, content) == [role |-> role, content |-> content]

Messages == {Message(role, content) : role \in Roles, content \in Contents}

MessageLists == UNION {[1..n -> Messages] : n \in 1..MaxMessages}

Turn(role, text) == [role |-> role, text |-> text]

\* (a variant which keeps the system messages in the history)
convertMessagesToGemini_withSystem(messages, draws) ==
  [history |-> [i \in 1..(Len(messages) - 1) |->
                 Turn(IF messages[i].role = "assistant" THEN "model" ELSE "user",
                      IF messages[i].content.string THEN messages[i].content.text
                      ELSE stringify(messages[i].content))],
   lastMessage |-> messages[Len(messages)].content.text]

\* the loop of convertMessagesToGemini from message i on
RECURSIVE convertFrom(_, _, _, _)
convertFrom(messages, draws, i, history) ==
  IF i > Len(messages) THEN [history |-> history, lastMessage |-> <<>>]
  ELSE LET message == messages[i] IN
       IF i = Len(messages)
         THEN [history |-> history,
               lastMessage |->
                 IF message.content.string
                   THEN LET disguisedContent ==
                              IF message.role = "user"
                                THEN addDisguiseToMessage(message.content.text, draws[i])
                                ELSE message.content.text
                        IN addFormattingVariations(disguisedContent, draws[i])
                   ELSE stringify(message.content)]
       ELSE IF message.role = "user"
         THEN LET content == IF message.content.string THEN message.content.text
                             ELSE stringify(message.content)
                  disguisedContent == addDisguiseToMessage(content, draws[i])
              IN convertFrom(messages, draws, i + 1,
                   Append(history,
                          Turn("user", addFormattingVariations(disguisedContent, draws[i]))))
       ELSE IF message.role = "assistant"
         THEN convertFrom(messages, draws, i + 1,
                Append(history,
                       Turn("model", IF message.content.string THEN message.content.text
                                     ELSE stringify(message.content))))
       ELSE convertFrom(messages, draws, i + 1, history)

convertMessagesToGemini(messages, draws) == convertFrom(messages, draws, 1, <<>>)

NoConversion == [messages |-> <<>>, history |-> <<>>, lastMessage |-> <<>>]

DisguiseInit ==
  /\ enableDisguise \in BOOLEAN
  /\ converted = NoConversion

\* the draws of one conversion, one per message
DrawsFor(messages) ==
  IF enableDisguise THEN [1..Len(messages) -> Draws]
  ELSE {[i \in 1..Len(messages) |-> NoDraw]}

\* a chatCompletion call converts the messages of its request (the first
\* conversion after the start is recorded)
Convert(messages) ==
  /\ converted = NoConversion
  /\ \E draws \in DrawsFor(messages) :
       LET r == convertMessagesToGemini(messages, draws) IN
       converted' = [messages |-> messages, history |-> r.history,
                     lastMessage |-> r.lastMessage]
  /\ UNCHANGED <<enableDisguise, poolVars, clientVars, rateVars, cacheVars,
                 streamVars, gateVars, validation, now>>

\* the next request is awaited
Forget ==
  /\ converted # NoConversion
  /\ converted' = NoConversion
  /\ UNCHANGED <<enableDisguise, poolVars, clientVars, rateVars, cacheVars,
                 streamVars, gateVars, validation, now>>

ConvertNext ==
  \/ \E messages \in MessageLists : Convert(messages)
  \/ Forget

\* ------------------------------------------------------------------------
\* GeminiKeyManager.validateAllKeys
\* ------------------------------------------------------------------------
batchSize == 3

\* one validateSingleKey call of the batch: the record it holds (by its
\* credential; detached once the record has left the list), and how the call
\* has settled
Probe(k) == [key |-> k, settled |-> "pending", detached |-> FALSE]

ProbeOutcomes == {"ok", "E_KEY_INVALID", "E_NETWORK"}

\* this.keys.slice(i, i + batchSize).map(keyInfo => validateSingleKey(keyInfo))
sliceBatch(ks, i) ==
  LET last == IF i + batchSize < Len(ks) THEN i + batchSize ELSE Len(ks) IN
  [j \in 1..(last - i) |-> Probe(ks[i + j].key)]

NoValidation ==
  [pc |-> "idle", i |-> 0, batch |-> <<>>, validated |-> 0, failed |-> 0,
   total |-> 0, startKeys |-> <<>>, probed |-> <<>>]

ValidationInit == validation = NoValidation

KeyNames(ks) == [j \in 1..Len(ks) |-> ks[j].key]

\* the loop of validateAllKeys at its test, with loop variable i: the next
\* batch is started, or the counts are returned
loopFrom(v, ks, i) ==
  IF i < Len(ks)
    THEN LET batch == sliceBatch(ks, i) IN
         [v EXCEPT !.pc = "batch", !.i = i, !.batch = batch,
                   !.probed = v.probed \o [j \in 1..Len(batch) |-> batch[j].key]]
    ELSE [v EXCEPT !.pc = "done", !.i = i, !.batch = <<>>, !.total = Len(ks)]

\* the results of the batch are added to the counters
countBatch(v) ==
  [v EXCEPT
     !.validated = v.validated
       + Cardinality({j \in 1..Len(v.batch) : v.batch[j].settled = "true"}),
     !.failed = v.failed
       + Cardinality({j \in 1..Len(v.batch) : v.batch[j].settled # "true"})]

\* validateAllKeys after Promise.allSettled has resolved: the results are
\* counted, then the delay is awaited or the loop goes on
afterBatch(v, ks) ==
  IF v.i + batchSize < Len(ks)
    THEN [countBatch(v) EXCEPT !.pc = "delay"]
    ELSE loopFrom(countBatch(v), ks, v.i + batchSize)

\* validateAllKeys is called: the first batch of probes is sent
ValidateAllKeys ==
  /\ validation.pc = "idle"
  /\ validation' = loopFrom([NoValidation EXCEPT !.startKeys = KeyNames(keys)],
                            keys, 0)
  /\ UNCHANGED <<poolVars, clientVars, rateVars, cacheVars, streamVars, gateVars,
                 disguiseVars, now>>

\* the probe of position j of the batch settles: validateSingleKey writes the
\* record it holds and returns; with the last probe of the batch
\* Promise.allSettled resolves and validateAllKeys goes on
ProbeSettles(j, result) ==
  /\ validation.pc = "batch"
  /\ j \in 1..Len(validation.batch)
  /\ validation.batch[j].settled = "pending"
  /\ LET probe == validation.batch[j]
         inList == ~probe.detached /\ probe.key \in PoolKeys(keys)
         ks == IF ~inList THEN keys
               ELSE IF result = "ok" THEN validateSingleKeyOk(keys, probe.key)
               ELSE validateSingleKeyFail(keys, probe.key, result)
         settled == [validation EXCEPT
                       !.batch[j].settled = IF result = "ok" THEN "true" ELSE "false"]
     IN /\ (result # "ok" /\ inList) => ErrorCountOf(keys, probe.key) < MaxErr
        /\ keys' = ks
        /\ validation' =
             IF \E n \in 1..Len(settled.batch) : settled.batch[n].settled = "pending"
               THEN settled
               ELSE afterBatch(settled, ks)
  /\ PoolChanged
  /\ UNCHANGED <<currentIndex, lastOp, trans>>
  /\ UNCHANGED <<observe, clientVars, rateVars, cacheVars, streamVars, gateVars,
                 disguiseVars, now>>

\* the delay between two batches is over
ValidateDelayDone ==
  /\ validation.pc = "delay"
  /\ validation' = loopFrom(validation, keys, validation.i + batchSize)
  /\ UNCHANGED <<poolVars, clientVars, rateVars, cacheVars, streamVars, gateVars,
                 disguiseVars, now>>

\* removeKey while validateAllKeys is waiting: a probe in flight keeps the
\* record which has left the list
RemoveKeyMeanwhile(id) ==
  LET r == removeKey(keys, currentIndex, id) IN
  /\ validation.pc \in {"batch", "delay"}
  /\ removeKeyCall(id)
  /\ validation' =
       [validation EXCEPT
          !.batch = [j \in 1..Len(validation.batch) |->
                      IF r.success /\ validation.batch[j].key = r.removed
                        THEN [validation.batch[j] EXCEPT !.detached = TRUE]
                        ELSE validation.batch[j]]]
  /\ UNCHANGED <<observe, clientVars, rateVars, cacheVars, streamVars, gateVars,
                 disguiseVars, now>>

\* addKey while validateAllKeys is waiting
AddKeyMeanwhile(a) ==
  /\ validation.pc \in {"batch", "delay"}
  /\ AddKey(a)

\* a request reports the result of its attempt while validateAllKeys is waiting
ReportMeanwhile(k) ==
  /\ validation.pc \in {"batch", "delay"}
  /\ \/ MarkKeySuccess(k)
     \/ MarkKeyFailed(k, "E_KEY_INVALID")

ValidateNext ==
  \/ ValidateAllKeys
  \/ \E j \in 1..batchSize, result \in ProbeOutcomes : ProbeSettles(j, result)
  \/ ValidateDelayDone
  \/ \E id \in {"R_K1", "R_K2"} : RemoveKeyMeanwhile(id)
  \/ \E a \in {"A_K1_PADDED", "A_K2"} : AddKeyMeanwhile(a)
  \/ \E k \in {"K1", "K2"} : ReportMeanwhile(k)

\* ------------------------------------------------------------------------
\* Specifications
\* ------------------------------------------------------------------------
vars ==
  <<poolVars, clientVars, rateVars, cacheVars, streamVars, gateVars, disguiseVars,
    validation, now>>

Init ==
  /\ PoolInit
  /\ ClientInit
  /\ RateInit
  /\ CacheInit
  /\ StreamInit
  /\ GateInit
  /\ DisguiseInit
  /\ ValidationInit

\* the configuration the other components' specifications leave the disguise in
DisguiseOff == ~enableDisguise

\* the configuration the other components' specifications leave the route in
GateOff == password = "P_UNSET"

\* the configuration the other components' specifications leave streaming in
StreamOff == ~enableFakeStreaming

\* the configuration the other components' specifications start the cache in
CacheOff ==
  /\ ~enableCache
  /\ concurrentRequests = 1
  /\ workload = {"R_BASE", "R_STREAM"}

\* the key manager under any sequence of its operations, with the rotation
\* history, the last operation, or the per-credential failure runs recorded
InitRotation == Init /\ CacheOff /\ StreamOff /\ GateOff /\ DisguiseOff /\ observe = "rotation"
SpecRotation == InitRotation /\ [][PoolNext]_vars

\* the same, with the credential returned last kept over changes of the pool
InitLast == Init /\ CacheOff /\ StreamOff /\ GateOff /\ DisguiseOff /\ observe = "last"
SpecLast == InitLast /\ [][PoolNext]_vars

InitPool == Init /\ CacheOff /\ StreamOff /\ GateOff /\ DisguiseOff /\ observe = "operation"
SpecPool == InitPool /\ [][PoolNext]_vars

InitHealth == Init /\ CacheOff /\ StreamOff /\ GateOff /\ DisguiseOff /\ observe = "health"
SpecHealth == InitHealth /\ [][PoolNext]_vars

\* concurrent chatCompletion calls over the key manager, started on a pool of
\* one, two or three credentials loaded from the environment
ClientKeyLists == {<<"K1">>, <<"K1", "K2">>, <<"K1", "K2", "K3">>}

InitClient ==
  /\ Init
  /\ CacheOff
  /\ StreamOff
  /\ GateOff
  /\ DisguiseOff
  /\ observe = "client"
  /\ \E keyList \in ClientKeyLists : keys = loadKeysFromEnv(keyList)
SpecClient == InitClient /\ [][ClientNext]_vars

\* the same calls on a pool of one or two credentials, with the record of the
\* credentials reported as permanently failed
RetryKeyLists == {<<"K1">>, <<"K1", "K2">>}
InitPermanent ==
  /\ Init
  /\ CacheOff
  /\ StreamOff
  /\ GateOff
  /\ DisguiseOff
  /\ observe = "permanent"
  /\ \E keyList \in RetryKeyLists : keys = loadKeysFromEnv(keyList)
SpecPermanent == InitPermanent /\ [][ClientNext]_vars

\* the same calls, with the record of the credential whose attempt failed last
InitRetry ==
  /\ Init
  /\ CacheOff
  /\ StreamOff
  /\ GateOff
  /\ DisguiseOff
  /\ observe = "retry"
  /\ \E keyList \in RetryKeyLists : keys = loadKeysFromEnv(keyList)
SpecRetry == InitRetry /\ [][ClientNext]_vars

\* request handlers calling the rate limiter as time passes
InitRate ==
  /\ Init
  /\ CacheOff
  /\ StreamOff
  /\ GateOff
  /\ DisguiseOff
  /\ observe = "rate"
  /\ keys = loadKeysFromEnv(<<"K1">>)
SpecRate == InitRate /\ [][RateNext]_vars

\* the same, with resetRateLimits called in between
InitReset ==
  /\ Init
  /\ CacheOff
  /\ StreamOff
  /\ GateOff
  /\ DisguiseOff
  /\ observe = "reset"
  /\ keys = loadKeysFromEnv(<<"K1">>)
SpecReset == InitReset /\ [][ResetNext]_vars

\* request handlers calling the cache manager as time passes
InitCache ==
  /\ Init
  /\ StreamOff
  /\ GateOff
  /\ DisguiseOff
  /\ observe = "cache"
  /\ keys = loadKeysFromEnv(<<"K1">>)
SpecCache == InitCache /\ [][CacheNext]_vars

\* the same handlers, recording which upstream call produced what
FanoutWorkloads == {{"R_BASE", "R_USER"}, {"R_BASE", "R_MODEL"}}
InitFanout ==
  /\ Init
  /\ StreamOff
  /\ GateOff
  /\ DisguiseOff
  /\ observe = "fanout"
  /\ keys = loadKeysFromEnv(<<"K1">>)
  /\ workload \in FanoutWorkloads
SpecFanout == InitFanout /\ [][CacheNext]_vars

\* one streaming request, with fake streaming or with real streaming
InitStream ==
  /\ Init
  /\ CacheOff
  /\ GateOff
  /\ DisguiseOff
  /\ observe = "stream"
  /\ keys = loadKeysFromEnv(<<"K1">>)
SpecStream == InitStream /\ [][StreamNext]_vars

\* requests arriving at the route, with and without a password configured
InitGate ==
  /\ Init
  /\ observe = "gate"
  /\ keys = loadKeysFromEnv(<<"K1">>)
  /\ enableCache
  /\ concurrentRequests = 1
  /\ workload = {"R_BASE", "R_STREAM"}
  /\ enableFakeStreaming
  /\ DisguiseOff
SpecGate == InitGate /\ [][GateNext]_vars

\* validateAllKeys on pools of two to four credentials, next to addKey,
\* removeKey and the reports of requests
ValidateKeyLists ==
  {<<"K3", "K1">>, <<"K1", "K2", "K3">>, <<"K1", "K2", "K3", FourthKey>>}
InitValidate ==
  /\ keys \in {loadKeysFromEnv(keyList) : keyList \in ValidateKeyLists}
  /\ currentIndex = 0
  /\ rot = <<>>
  /\ callers = {}
  /\ lastOp = NoOp
  /\ trans = [k \in KeyUniverse |-> Dirty]
  /\ observe = "validate"
  /\ ClientInit
  /\ RateInit
  /\ CacheInit
  /\ CacheOff
  /\ StreamInit
  /\ StreamOff
  /\ GateInit
  /\ GateOff
  /\ DisguiseInit
  /\ DisguiseOff
  /\ ValidationInit
SpecValidate == InitValidate /\ [][ValidateNext]_vars

\* message lists converted for the upstream, with and without the disguise
InitConvert ==
  /\ Init
  /\ CacheOff
  /\ StreamOff
  /\ GateOff
  /\ observe = "convert"
  /\ keys = loadKeysFromEnv(<<"K1">>)
SpecConvert == InitConvert /\ [][ConvertNext]_vars

\* ------------------------------------------------------------------------
\* Properties of the key manager
\* ------------------------------------------------------------------------
AllHealthy == \A i \in 1..Len(keys) : IsHealthy(keys[i])

RecordOf(k) == keys[IndexOfKey(keys, k)]

\* the keys that the next n getNextKey() calls return
RECURSIVE NextReturns(_, _, _)
NextReturns(ks, idx, n) ==
  IF n = 0 THEN {}
  ELSE LET r == getNextKey(ks, idx) IN
       IF r.ok THEN {r.key} \cup NextReturns(ks, r.index, n - 1) ELSE {}

\* the keys returned by one full turn of the rotation from the current state
Rotation == NextReturns(keys, currentIndex, Len(keys))

\* C1: with N credentials, all healthy, and nothing but getNextKey() calls
\* since the pool last changed, any N consecutive calls (whoever issued them)
\* return N different credentials of the pool, hence each exactly once, and
\* the call N places later returns the same credential again.
C1_RoundRobin ==
  AllHealthy =>
    /\ \A i \in 1..Len(rot) : rot[i] \in PoolKeys(keys)
    /\ \A i, j \in 1..Len(rot) : (i < j /\ j - i < Len(keys)) => rot[i] # rot[j]
    /\ \A i, j \in 1..Len(rot) : j - i = Len(keys) => rot[i] = rot[j]
    /\ Len(rot) >= Len(keys) =>
         {rot[i] : i \in 1..Len(keys)} = PoolKeys(keys)

C1_Witness ==
  /\ AllHealthy
  /\ Len(keys) = 3
  /\ Len(rot) = 4
  /\ callers = Handlers

\* C2: a credential returned by getNextKey() is in the pool, has isValid
\* true and an errorCount below maxErrorCount.
C2_ReturnsHealthyOnly ==
  (lastOp.op = "getNextKey" /\ lastOp.ok) =>
    /\ lastOp.key \in PoolKeys(keys)
    /\ RecordOf(lastOp.key).isValid
    /\ RecordOf(lastOp.key).errorCount < maxErrorCount

C2_Witness ==
  /\ lastOp.op = "getNextKey"
  /\ lastOp.ok
  /\ \E i \in 1..Len(keys) : ~keys[i].isValid /\ keys[i].errorCount > maxErrorCount
  /\ \E k \in KeyUniverse : k \notin PoolKeys(keys)

\* the error details that carry one of the four permanent-failure signals
PermanentSignals == {"E_KEY_INVALID", "E_PERMISSION", "E_REASON", "E_INVALID_KEY"}

C5_FailureReportedOnUsedKey ==
  lastFailure.used # NoKey =>
    /\ lastFailure.reported = lastFailure.used
    /\ lastFailure.changed \subseteq {lastFailure.used}

\* C6: a chatCompletion call makes at most maxRetries upstream attempts, and
\* when it fails it has gone through all maxRetries attempts and its error
\* carries the error of the last attempt.
C6_FailsOnlyAfterAllAttempts ==
  \A h \in Handlers :
    /\ upstreamCalls[h] <= maxRetries
    /\ (pc[h] = "done" /\ outcome[h].kind # "ok") =>
          /\ outcome[h].kind = "exhausted"
          /\ attempt[h] = maxRetries
          /\ outcome[h].err = lastError[h]

\* ------------------------------------------------------------------------
\* Properties of the rate limiter
\* ------------------------------------------------------------------------
\* C7: while no call of the minute bucket runs into the per-client day limit,
\* the first maxRequestsPerMinute calls of the bucket are allowed and every
\* later call is rejected with retryAfter = the seconds, rounded up, until
\* the bucket's reset time, which lies between 1 and 60.
C7_MinuteCeiling ==
  (lastRL.ip # NoClient /\ ~lastRL.dayLimitHit
     /\ lastRL.dayBefore < maxRequestsPerDayPerIP) =>
    /\ lastRL.callNo <= maxRequestsPerMinute => lastRL.allowed
    /\ lastRL.callNo > maxRequestsPerMinute =>
         /\ ~lastRL.allowed
         /\ lastRL.retryAfter >= 1
         /\ lastRL.retryAfter <= 60
         /\ (lastRL.retryAfter - 1) * 1000 < minuteReset(now) - now
         /\ minuteReset(now) - now <= lastRL.retryAfter * 1000

C7_Witness ==
  /\ lastRL.ip # NoClient
  /\ ~lastRL.dayLimitHit
  /\ lastRL.dayBefore < maxRequestsPerDayPerIP
  /\ lastRL.callNo = maxRequestsPerMinute + 1
  /\ ~lastRL.allowed
  /\ lastRL.retryAfter = 1

\* C8: a rejected checkRateLimit call leaves the global minute counter and the
\* caller's day counter as they were, and a call over both limits is rejected
\* by the per-minute limit with the per-minute retryAfter.
C8_RejectionLeavesCounters ==
  (lastRL.ip # NoClient /\ ~lastRL.allowed) =>
    /\ MinuteCount(limiterCache, now) = lastRL.minuteBefore
    /\ DayCount(limiterCache, lastRL.ip, now) = lastRL.dayBefore
    /\ lastRL.by = (IF lastRL.minuteBefore >= maxRequestsPerMinute
                      THEN "minute" ELSE "day")
    /\ lastRL.by = "minute" =>
         lastRL.retryAfter = ceilDiv(minuteReset(now) - now, 1000)
    /\ lastRL.by = "day" =>
         lastRL.retryAfter = ceilDiv(dayReset(now) - now, 1000)

C8_Witness ==
  /\ lastRL.ip # NoClient
  /\ ~lastRL.allowed
  /\ lastRL.minuteBefore >= maxRequestsPerMinute
  /\ lastRL.dayBefore >= maxRequestsPerDayPerIP
  /\ lastRL.by = "minute"

\* a call rejected by the per-client day limit alone
C8_DayRejection ==
  /\ lastRL.ip # NoClient
  /\ ~lastRL.allowed
  /\ lastRL.by = "day"
  /\ lastRL.minuteBefore > 0

\* C9: in every state the current minute bucket's counter is the number of
\* calls allowed in that bucket and does not exceed the per-minute ceiling,
\* and each client's day counter is the number of that client's calls
\* allowed that day and does not exceed the per-day ceiling.
C9_CountersMatchAllowed ==
  /\ MinuteCount(limiterCache, now) = minuteAllowed
  /\ minuteAllowed <= maxRequestsPerMinute
  /\ \A ip \in Clients :
       /\ DayCount(limiterCache, ip, now) = dayAllowed[ip]
       /\ dayAllowed[ip] <= maxRequestsPerDayPerIP

C9_Witness ==
  /\ now \div 60000 > 0
  /\ MinuteCount(limiterCache, now) = maxRequestsPerMinute
  /\ DayCount(limiterCache, "ipA", now) = maxRequestsPerDayPerIP
  /\ DayCount(limiterCache, "ipB", now) > 0

\* ------------------------------------------------------------------------
\* Properties of the cache manager
\* ------------------------------------------------------------------------
Agree(r1, r2) ==
  \A i \in 1..Len(FingerprintFields) :
    RequestOf[r1][FingerprintFields[i]] = RequestOf[r2][FingerprintFields[i]]

\* the requests agreeing with r on the six fields for which handleRequest
\* returned an upstream response no longer than the time-to-live ago
LiveFor(r) ==
  {q \in DOMAIN stored :
     /\ now <= stored[q].at + defaultTTL * 1000
     /\ Agree(q, r)}

\* C10: with caching enabled, handleRequest(r') returns the cached response
\* and starts no upstream call when an earlier successful handleRequest(r),
\* within the time-to-live, agrees with r' on model, messages, temperature,
\* max_tokens, top_p and top_k; when every earlier request differs from r' in
\* one of those fields it is a miss and the upstream client is called.
C10_HitOnSameFingerprint ==
  (enableCache /\ lastEvent.kind \in {"hit", "miss"}) =>
    /\ LiveFor(lastEvent.req) # {} =>
         /\ lastEvent.kind = "hit"
         /\ lastEvent.calls = 0
         /\ \E q \in LiveFor(lastEvent.req) :
              /\ lastEvent.resp = stored[q].resp
              /\ \A p \in LiveFor(lastEvent.req) : stored[p].at <= stored[q].at
    /\ LiveFor(lastEvent.req) = {} =>
         /\ lastEvent.kind = "miss"
         /\ lastEvent.calls >= 1

\* a hit for a request that was itself never sent upstream, at the last
\* instant of the entry's time-to-live
C10_Witness ==
  /\ enableCache
  /\ lastEvent.kind = "hit"
  /\ lastEvent.req \notin DOMAIN stored
  /\ now = lastEvent.resp.id + defaultTTL * 1000

\* a miss for a request that differs in one fingerprint field from a request
\* whose response is cached
C10_MissOnOtherFingerprint ==
  /\ enableCache
  /\ lastEvent.kind = "miss"
  /\ \E q \in DOMAIN stored : ~Agree(q, lastEvent.req)

\* ------------------------------------------------------------------------
\* Properties of the fan-out and of what it caches
\* ------------------------------------------------------------------------
\* the promises of handler h after a step: those still awaited, or those
\* which have just all settled
PromisesOf(h, c, event) ==
  IF c[h].phase # "idle" THEN c[h].promises ELSE event.settled

\* response was returned by a successful upstream call for a request whose
\* fingerprint is base
FromSuccessfulCall(response, base) ==
  /\ response.content.req \in Requests
  /\ MainKey[response.content.req].base = base
  /\ response = Response(response.content.req, response.id, response.content)

EntryWritten(k) ==
  k \notin DOMAIN responseCache \/ responseCache'[k] # responseCache[k]

\* C11: every cache entry, main or variant, stored under fingerprint f holds
\* a response returned by a successful upstream call for a request whose
\* fingerprint is f; and every step which creates or overwrites an entry
\* stores the value of a fulfilled promise, so a failed upstream call never
\* creates or overwrites one (when every call has failed, nothing is written).
C11_EntriesFromSuccessfulCalls ==
  /\ [](\A k \in DOMAIN responseCache :
          FromSuccessfulCall(responseCache[k].v.response, k.base))
  /\ [][/\ \A k \in DOMAIN responseCache' :
             EntryWritten(k) =>
               \E h \in Handlers :
                 \E i \in 1..Len(PromisesOf(h, call', lastEvent')) :
                   /\ PromisesOf(h, call', lastEvent')[i].state = "fulfilled"
                   /\ PromisesOf(h, call', lastEvent')[i].value
                        = responseCache'[k].v.response
        /\ lastEvent'.kind = "throw" =>
             \A k \in DOMAIN responseCache' : ~EntryWritten(k)]_vars

\* every call of a request has just failed while the cache holds a main entry
\* and a variant entry, under two fingerprints
C11_Witness ==
  /\ lastEvent.kind = "throw"
  /\ lastEvent.cause \in CallErrors
  /\ \E k1, k2 \in DOMAIN responseCache :
       /\ k1.variant = 0
       /\ k2.variant = 1
       /\ k1.base # k2.base

\* the entries of the cache which hold response under fingerprint base
EntriesHolding(response, base) ==
  {k \in DOMAIN responseCache :
     k.base = base /\ responseCache[k].v.response = response}

FanoutOn == enableConcurrent /\ concurrentRequests > 1

FulfilledIn(ps) == {i \in 1..Len(ps) : ps[i].state = "fulfilled"}
PendingIn(ps) == {i \in 1..Len(ps) : ps[i].state = "pending"}

\* response is the value of a promise of ps fulfilled no later than any other
FirstToSucceed(response, ps) ==
  /\ \E i \in FulfilledIn(ps) : ps[i].value = response
  /\ \A i \in FulfilledIn(ps) : response.id <= ps[i].value.id

\* C13: with a fan-out of N > 1, a cache miss issues N upstream calls, all for
\* the request of the caller; as long as handleRequest has not returned no
\* call has succeeded, so it returns as soon as one call succeeds, with the
\* response of the call which succeeded first, whether or not other calls
\* are still pending; and it fails only when every call has failed.
C13_FirstSuccessReturned ==
  FanoutOn =>
    /\ lastEvent.kind = "miss" =>
         /\ lastEvent.calls = concurrentRequests
         /\ \E h \in Handlers :
              /\ call[h].phase = "racing"
              /\ call[h].req = lastEvent.req
              /\ PendingIn(call[h].promises) = 1..concurrentRequests
    /\ \A h \in Handlers :
         /\ call[h].phase # "single"
         /\ call[h].phase = "racing" =>
              /\ Len(call[h].promises) = concurrentRequests
              /\ FulfilledIn(call[h].promises) = {}
              /\ PendingIn(call[h].promises) # {}
         /\ call[h].phase = "additional" =>
              /\ FirstToSucceed(call[h].first, call[h].promises)
              /\ call[h].first.content.req = call[h].req
    /\ lastEvent.kind = "return" =>
         /\ lastEvent.resp.content.req = lastEvent.req
         /\ \E h \in Handlers :
              LET ps == PromisesOf(h, call, lastEvent) IN
              /\ FulfilledIn(ps) # {}
              /\ \A i \in FulfilledIn(ps) : ps[i].value = lastEvent.resp
    /\ lastEvent.kind = "throw" =>
         /\ Len(lastEvent.settled) = concurrentRequests
         /\ \A i \in 1..Len(lastEvent.settled) :
              lastEvent.settled[i].state = "rejected"

\* handleRequest has just returned the response of the second call while the
\* first call is still pending
C13_Witness ==
  /\ FanoutOn
  /\ lastEvent.kind = "return"
  /\ \E h \in Handlers :
       /\ call[h].phase = "additional"
       /\ call[h].first = lastEvent.resp
       /\ call[h].promises[1].state = "pending"
       /\ call[h].promises[2].state = "fulfilled"

\* handleRequest has just returned the response of the second call after the
\* first call had failed
C13_WitnessAfterFailure ==
  /\ FanoutOn
  /\ lastEvent.kind = "return"
  /\ Len(lastEvent.settled) = concurrentRequests
  /\ lastEvent.settled[1].state = "rejected"
  /\ lastEvent.settled[2].value = lastEvent.resp

IsKeepAlive(f) == f = keepAliveChunk
IsDelta(f) == f.data = "chunk" /\ f.hasContent
IsTerminal(f) ==
  /\ f.data = "chunk"
  /\ f.choices
  /\ ~f.hasContent
  /\ f.finish_reason \notin {"null", "absent"}
  /\ f.usage
  /\ f.error = NoOutcome
IsDone(f) == f.data = "[DONE]"
IsErrorShaped(f) == f.data = "chunk" /\ f.error # NoOutcome

\* the place of a frame in the order keep-alive, content, terminal, sentinel
Rank(f) ==
  IF IsKeepAlive(f) THEN 1
  ELSE IF IsDelta(f) THEN 2
  ELSE IF IsTerminal(f) THEN 3
  ELSE IF IsDone(f) THEN 4
  ELSE 0

Count(q, P(_)) == Cardinality({i \in 1..Len(q) : P(q[i])})

\* C15: when the upstream call of a fake-streaming request has succeeded with
\* a non-empty text, the frames written so far are keep-alive chunks, then
\* content chunks, then at most one terminal chunk, then at most one [DONE],
\* in this order and with no other frame; and once the stream is closed
\* there is exactly one terminal chunk (finish_reason set, usage present),
\* exactly one [DONE], at least one content chunk when the text has a word
\* and more than one when it has more than 10 words.
C15_FakeStreamFrameOrder ==
  (/\ enableFakeStreaming
   /\ upstream.kind = "success"
   /\ TextOf[upstream.text] # <<>>)
  => LET q == controller.queue
         words == wordCount(TextOf[upstream.text])
     IN
     /\ \A i \in 1..Len(q) : Rank(q[i]) # 0
     /\ \A i, j \in 1..Len(q) : i < j => Rank(q[i]) <= Rank(q[j])
     /\ Count(q, IsTerminal) <= 1
     /\ Count(q, IsDone) <= 1
     /\ Count(q, IsDelta) >= 1 \/ words = 0
     /\ streamPc = "closed" =>
          /\ Count(q, IsTerminal) = 1
          /\ Count(q, IsDone) = 1
          /\ words >= 1 => Count(q, IsDelta) >= 1
          /\ words > 10 => Count(q, IsDelta) > 1

\* a closed fake stream of a text of 21 words: two keep-alive chunks, three
\* content chunks, the terminal chunk and the sentinel
C15_Witness ==
  /\ enableFakeStreaming
  /\ streamPc = "closed"
  /\ upstream = [kind |-> "success", text |-> "T_21"]
  /\ Len(controller.queue) = 7
  /\ Count(controller.queue, IsKeepAlive) = 2
  /\ Count(controller.queue, IsDelta) = 3

\* a closed fake stream of a text of white space only: no content chunk
C15_WitnessBlank ==
  /\ enableFakeStreaming
  /\ streamPc = "closed"
  /\ upstream = [kind |-> "success", text |-> "T_BLANK"]
  /\ Count(controller.queue, IsDelta) = 0
  /\ Count(controller.queue, IsTerminal) = 1

\* C16: every streaming response, fake or real, after a success or a failure
\* of the upstream call, holds the frame `data: [DONE]` exactly once when it
\* is closed, and that frame is the last one written.
C16_DoneOnceAndLast ==
  streamPc = "closed" =>
    /\ Count(controller.queue, IsDone) = 1
    /\ IsDone(controller.queue[Len(controller.queue)])

\* C17: for every streaming request the controller is closed exactly once,
\* when start() ends, after a success and after a failure of the upstream
\* call; start() always goes on until it has closed the controller; and
\* nothing is enqueued once the controller is closed.
C17_ClosedOnce ==
  /\ [](/\ controller.closed = (IF streamPc = "closed" THEN 1 ELSE 0)
        /\ controller.late = 0
        /\ ~ENABLED StreamNext => streamPc = "closed")
  /\ [][controller.closed > 0 => controller' = controller]_vars

\* a fake stream closed after the upstream call failed, with a keep-alive
\* chunk written while the call was pending
C17_Witness ==
  /\ enableFakeStreaming
  /\ controller.closed = 1
  /\ upstream.kind = "failure"
  /\ Count(controller.queue, IsKeepAlive) > 0

\* a real stream closed after two content chunks and a successful end
C17_WitnessReal ==
  /\ ~enableFakeStreaming
  /\ controller.closed = 1
  /\ upstream.kind = "success"
  /\ Count(controller.queue, IsDelta) = 2

\* C18: when the upstream call of a fake-streaming request has failed, the
\* closed stream holds exactly one error-shaped chunk, and
\* handleFakeStreaming has thrown the error of the upstream call.
C18_OneErrorChunk ==
  (/\ enableFakeStreaming
   /\ streamPc = "closed"
   /\ upstream.kind = "failure")
  => /\ Count(controller.queue, IsErrorShaped) = 1
     /\ thrown \in CallErrors

\* C19: a non-streaming request whose credential attempts have all failed
\* (no healthy credential, or maxRetries failed attempts), so that
\* handleRequest throws, is answered with HTTP 503, with a single call and
\* with a fan-out.
C19_ExhaustionIs503 ==
  lastEvent.kind = "throw" => routeStatus(lastEvent) = 503

\* ------------------------------------------------------------------------
\* Properties of a call which finds no healthy credential
\* ------------------------------------------------------------------------
NoHealthyKey == \A i \in 1..Len(keys) : ~IsHealthy(keys[i])

\* C20: when no credential of the pool is healthy, getNextKey() throws the
\* no-valid-keys error and leaves the rotation index as it is; a
\* chatCompletion call which asks for a credential in such a state can take
\* its step, and that step ends the call with the no-valid-keys error,
\* without an upstream request, without a change to the pool or to the
\* rotation index, and without another attempt; no call makes more than
\* maxRetries attempts.
C20_NoHealthyKeyEndsCall ==
  /\ [](/\ NoHealthyKey =>
             /\ ~getNextKey(keys, currentIndex).ok
             /\ getNextKey(keys, currentIndex).index = currentIndex
             /\ \A h \in Handlers : pc[h] = "acquire" => ENABLED Acquire(h)
        /\ \A h \in Handlers : attempt[h] <= maxRetries)
  /\ [][\A h \in Handlers :
          (/\ NoHealthyKey
           /\ pc[h] = "acquire"
           /\ pc'[h] # "acquire")
          => /\ pc'[h] = "done"
             /\ outcome'[h] = [kind |-> "thrown", err |-> NoValidKeysError]
             /\ upstreamCalls'[h] = upstreamCalls[h]
             /\ attempt'[h] = attempt[h]
             /\ keys' = keys
             /\ currentIndex' = currentIndex]_vars

\* a call which began when no credential was healthy has ended with the
\* no-valid-keys error and has sent no upstream request
C20_Witness ==
  /\ NoHealthyKey
  /\ \E h \in Handlers :
       /\ pc[h] = "done"
       /\ outcome[h] = [kind |-> "thrown", err |-> NoValidKeysError]
       /\ attempt[h] = 0
       /\ upstreamCalls[h] = 0

\* ------------------------------------------------------------------------
\* Properties of the route's gate
\* ------------------------------------------------------------------------
\* this step is the arrival of a request at handler h: POST as far as the
\* await of the body
PostStep(h) ==
  /\ gate[h] = "idle"
  /\ minuteCalls' = minuteCalls + 1
  /\ answer'.handler = h

\* nothing beyond the rate limiter has been touched: no upstream call, no
\* change of the key pool, no cache lookup and no cache write, no stream
BeyondGateUnchanged ==
  /\ gate' = gate
  /\ UNCHANGED <<poolVars, clientVars, cacheVars, streamVars>>

C21_WitnessNoPassword ==
  /\ password = "P_UNSET"
  /\ answer.header = "H_BEARER_OTHER"
  /\ answer.status = 0
  /\ gate[answer.handler] = "json"

\* C22: a request which the rate limiter rejects is answered with 429 and a
\* Retry-After header holding the limiter's retryAfter, a positive number of
\* seconds, whatever its Authorization header, and the step goes no further:
\* no wait for the body, no upstream call, no change of the key pool, no
\* cache lookup, no cache write, no stream.
C22_RateLimitedIs429 ==
  [][\A h \in Handlers :
       (PostStep(h) /\ ~lastRL'.allowed) =>
         /\ answer'.status = 429
         /\ answer'.code = "rate_limit_exceeded"
         /\ answer'.retryAfter = lastRL'.retryAfter
         /\ answer'.retryAfter >= 1
         /\ BeyondGateUnchanged]_vars

\* a request which would fail authentication has just been answered with 429
C22_Witness ==
  /\ answer.status = 429
  /\ ~lastRL.allowed
  /\ password = "P_SET"
  /\ answer.header = "H_BEARER_OTHER"

\* a request rejected by the day limit of its client
C22_WitnessDay ==
  /\ answer.status = 429
  /\ lastRL.by = "day"
  /\ answer.retryAfter > 60

\* ------------------------------------------------------------------------
\* Properties of addKey and removeKey
\* ------------------------------------------------------------------------
\* positions of the pool whose credential removeKey's findIndex accepts for id
MatchingPositions(id) ==
  {i \in 1..Len(keys) : MatchesKey[keys[i].key][id]}

FirstOf(positions) == CHOOSE i \in positions : \A j \in positions : i <= j

HealthyCount(ks) == Cardinality({i \in 1..Len(ks) : IsHealthy(ks[i])})

\* C23: a removeKey call whose matched credential (the first of the list that
\* the identifier matches) is the only healthy credential of the pool fails;
\* every failing removeKey call leaves the list and the rotation index as
\* they were; and no removeKey call takes a pool with a healthy credential to
\* a pool without one.
C23_LastHealthyKeyStays ==
  [][lastOp'.op = "removeKey" =>
       LET id == lastOp'.input
           m == MatchingPositions(id)
       IN
       /\ (/\ RemoveText[id] # <<>>
           /\ m # {}
           /\ HealthyCount(keys) = 1
           /\ IsHealthy(keys[FirstOf(m)])) => ~lastOp'.ok
       /\ ~lastOp'.ok => (keys' = keys /\ currentIndex' = currentIndex)
       /\ HealthyCount(keys) >= 1 => HealthyCount(keys') >= 1]_vars

\* removeKey has just refused to remove the only healthy credential, named in
\* full, of a pool which holds a disabled credential too
C23_Witness ==
  /\ lastOp.op = "removeKey"
  /\ ~lastOp.ok
  /\ lastOp.input \in {"R_K1", "R_K2", "R_K3"}
  /\ Len(keys) >= 2
  /\ HealthyCount(keys) = 1
  /\ \E i \in MatchingPositions(lastOp.input) : IsHealthy(keys[i])

\* removeKey has just removed a disabled credential next to the only healthy one
C23_WitnessRemoved ==
  /\ lastOp.op = "removeKey"
  /\ lastOp.ok
  /\ HealthyCount(keys) = 1
  /\ Len(keys) = 1

\* C24: an addKey call fails and leaves the pool as it was when its text is
\* empty, when the trimmed text does not start with 'AIza' or has fewer than
\* 30 characters, or when the trimmed text is a credential of the pool; every
\* other call appends one healthy record with errorCount 0 for the trimmed
\* text and leaves the other records and the rotation index as they were.
C24_AddKeyChecksFormat ==
  [][lastOp'.op = "addKey" =>
       LET raw == AddText[lastOp'.input]
           trimmed == trim(raw)
           refused ==
             \/ raw = <<>>
             \/ ~startsWith(trimmed, <<"A","I","z","a">>)
             \/ Len(trimmed) < 30
             \/ \E i \in 1..Len(keys) : KeyText[keys[i].key] = trimmed
       IN
       /\ currentIndex' = currentIndex
       /\ refused => (~lastOp'.ok /\ keys' = keys)
       /\ ~refused =>
            /\ lastOp'.ok
            /\ Len(keys') = Len(keys) + 1
            /\ SubSeq(keys', 1, Len(keys)) = keys
            /\ KeyText[keys'[Len(keys')].key] = trimmed
            /\ keys'[Len(keys')].isValid
            /\ keys'[Len(keys')].errorCount = 0]_vars

\* addKey has just refused a padded text whose trimmed value is in the pool
C24_Witness ==
  /\ lastOp.op = "addKey"
  /\ ~lastOp.ok
  /\ lastOp.input = "A_K1_PADDED"
  /\ "K1" \in PoolKeys(keys)

\* addKey has just appended the trimmed value of a padded text to a pool
\* with a disabled credential
C24_WitnessAdded ==
  /\ lastOp.op = "addKey"
  /\ lastOp.ok
  /\ lastOp.input = "A_K1_PADDED"
  /\ keys[Len(keys)] = ApiKeyInfo("K1")
  /\ \E i \in 1..Len(keys) : ~IsHealthy(keys[i])

\* addKey has just refused a text of 29 characters with the prefix
C24_WitnessShort ==
  /\ lastOp.op = "addKey"
  /\ ~lastOp.ok
  /\ lastOp.input = "A_29"

\* ------------------------------------------------------------------------
\* Properties of getKeyStats
\* ------------------------------------------------------------------------
\* C25: no entry of the per-key view which getKeyStats returns contains the
\* whole text of its credential, whatever the credential's length and whether
\* it was loaded from the environment or added later.
C25_StatsHideSecrets ==
  lastOp.op = "getKeyStats" =>
    \A i \in 1..Len(keys) : ~includes(lastOp.view[i].key, KeyText[keys[i].key])

\* getKeyStats runs without a change of the pool, the rotation index or the
\* histories of the rotation
C25_StatsChangeNothing ==
  [][lastOp'.op = "getKeyStats" =>
       UNCHANGED <<keys, currentIndex, rot, callers, trans>>]_vars

\* the view of a credential which addKey accepted shows a proper part of it
C25_WitnessLongKey ==
  /\ lastOp.op = "getKeyStats"
  /\ \E i \in 1..Len(keys) :
       /\ Len(KeyText[keys[i].key]) >= 30
       /\ ~includes(lastOp.view[i].key, KeyText[keys[i].key])

\* ------------------------------------------------------------------------
\* Properties of the conversion of the messages
\* ------------------------------------------------------------------------
\* the text of a message before any disguise
RawText(message) ==
  IF message.content.string THEN message.content.text
  ELSE stringify(message.content)

\* a text without its blanks, which the formatting variations may double
NoBlanks(text) == SelectSeq(text, LAMBDA c : c # " ")

\* the text comes from the message: it holds the message's text, blanks aside
Holds(text, message) == includes(NoBlanks(text), NoBlanks(RawText(message)))

\* the messages before the last one which are not system messages
PriorTurns(messages) ==
  SelectSeq(SubSeq(messages, 1, Len(messages) - 1),
            LAMBDA m : m.role \in {"user", "assistant"})

\* C26: after convertMessagesToGemini on a non-empty list, the prompt is made
\* of the last message, whatever its role; the history has one turn for each
\* earlier user or assistant message, in the order of the list, a 'user' turn
\* for a user message and a 'model' turn for an assistant message, each
\* holding the text of its message (blanks aside); so neither the last message nor an
\* earlier system message has a turn.
C26_LastMessageIsPrompt ==
  converted # NoConversion =>
    LET messages == converted.messages
        prior == PriorTurns(messages)
    IN
    /\ Holds(converted.lastMessage, messages[Len(messages)])
    /\ Len(converted.history) = Len(prior)
    /\ \A j \in 1..Len(prior) :
         /\ converted.history[j].role =
              (IF prior[j].role = "assistant" THEN "model" ELSE "user")
         /\ Holds(converted.history[j].text, prior[j])

\* a list of a user message, a system message and an assistant message has
\* been converted: one turn, an assistant prompt
C26_Witness ==
  /\ Len(converted.messages) = 3
  /\ converted.messages[1].role = "user"
  /\ converted.messages[2].role = "system"
  /\ converted.messages[3].role = "assistant"
  /\ Len(converted.history) = 1

\* a list of three messages without a system message, with different
\* contents, has been converted with the disguise enabled
C26_WitnessDisguised ==
  /\ enableDisguise
  /\ Len(converted.messages) = 3
  /\ Len(converted.history) = 2
  /\ converted.messages[1].content # converted.messages[2].content
  /\ converted.history[1].text # RawText(converted.messages[1])

\* C27: with the disguise disabled, addDisguiseToMessage and
\* addFormattingVariations return their argument whatever Math.random()
\* yields, and the prompt and the texts of the history which
\* convertMessagesToGemini returns are the texts of the messages.
C27_DisabledDisguiseIsIdentity ==
  ~enableDisguise =>
    /\ \A content \in Contents, draw \in Draws :
         /\ addDisguiseToMessage(content.text, draw) = content.text
         /\ addFormattingVariations(content.text, draw) = content.text
    /\ converted # NoConversion =>
         LET messages == converted.messages
             prior == PriorTurns(messages)
         IN
         /\ converted.lastMessage = RawText(messages[Len(messages)])
         /\ \A j \in 1..Len(converted.history) :
              converted.history[j].text = RawText(prior[j])

\* with the disguise disabled, a list with two earlier user messages and a
\* user prompt, all of them strings, has been converted
C27_Witness ==
  /\ ~enableDisguise
  /\ Len(converted.messages) = 3
  /\ \A i \in 1..3 :
       /\ converted.messages[i].role = "user"
       /\ converted.messages[i].content.string
  /\ Len(converted.history) = 2

\* with the disguise enabled the prompt differs from the text of the message
C27_WitnessEnabled ==
  /\ enableDisguise
  /\ converted # NoConversion
  /\ converted.messages[Len(converted.messages)].content.string
  /\ converted.lastMessage # RawText(converted.messages[Len(converted.messages)])

\* ------------------------------------------------------------------------
\* Properties of validateAllKeys
\* ------------------------------------------------------------------------
\* the probes which the validation has started for credential k
ProbesOf(k) == Cardinality({j \in 1..Len(validation.probed) : validation.probed[j] = k})

\* what validateAllKeys has returned fits the pool: the counts add up to the
\* total, the total is the size of the pool, and every credential of the pool
\* has been probed once
ReturnFitsPool ==
  /\ validation.total = Len(keys)
  /\ validation.validated + validation.failed = validation.total
  /\ \A k \in PoolKeys(keys) : ProbesOf(k) = 1

\* C28: a batch has at most three probes, the delay and the next batch come
\* only when every probe of the batch has settled, and when validateAllKeys
\* returns, every credential of the pool has been probed exactly once and
\* validated + failed = total = the size of the pool, also when addKey,
\* removeKey and the reports of requests have run during the validation.
C28_EachKeyProbedOnce ==
  /\ Len(validation.batch) <= batchSize
  /\ validation.pc = "delay" =>
       \A j \in 1..Len(validation.batch) : validation.batch[j].settled # "pending"
  /\ validation.pc = "done" => ReturnFitsPool

\* the same for a validation during which the list of credentials has not
\* changed (reports of requests may have changed the records)
C28_QuietValidation ==
  /\ Len(validation.batch) <= batchSize
  /\ validation.pc = "delay" =>
       \A j \in 1..Len(validation.batch) : validation.batch[j].settled # "pending"
  /\ (validation.pc = "done" /\ KeyNames(keys) = validation.startKeys) =>
       ReturnFitsPool

\* a validation of four credentials in two batches has returned
C28_WitnessTwoBatches ==
  /\ validation.pc = "done"
  /\ Len(validation.startKeys) = 4
  /\ KeyNames(keys) = validation.startKeys
  /\ validation.validated = 2
  /\ validation.failed = 2

\* ------------------------------------------------------------------------
\* Properties of the credentials which chatCompletion uses
\* ------------------------------------------------------------------------
\* handler h sends an upstream request in this step
Attempts(h) == pc[h] = "acquire" /\ pc'[h] = "upstream"

\* C29: no upstream attempt of a call uses a credential for which a call has
\* reported a permanent failure before, whatever the calls in flight do
\* afterwards.
C29_PermanentKeyNeverUsed ==
  [][\A h \in Handlers : Attempts(h) => apiKey'[h] \notin permanent]_vars

\* C30: when an attempt of a call has failed and more than one credential is
\* healthy, the next attempt of the call uses another credential than the
\* one of the failed attempt.
C30_RetryUsesOtherKey ==
  [][\A h \in Handlers :
       (Attempts(h) /\ failedKey[h] # NoKey /\ Len(getValidKeys(keys)) > 1) =>
         apiKey'[h] # failedKey[h]]_vars

\* the same for attempts which failed with a network error, which chatCompletion
\* does not report to the key manager
C30_RetryAfterNetworkError ==
  [][\A h \in Handlers :
       (/\ Attempts(h)
        /\ failedKey[h] # NoKey
        /\ lastError[h] = "E_NETWORK"
        /\ Len(getValidKeys(keys)) > 1) =>
         apiKey'[h] # failedKey[h]]_vars

\* a retry has taken the other one of two healthy credentials
C30_WitnessOtherKey ==
  \E h \in Handlers :
    /\ pc[h] = "upstream"
    /\ attempt[h] = 1
    /\ apiKey[h] = "K2"
    /\ lastError[h] = "E_NETWORK"
    /\ Len(getValidKeys(keys)) = 2

\* ------------------------------------------------------------------------
\* Properties of the rotation over a changing pool
\* ------------------------------------------------------------------------
\* this step is a getNextKey() call which returns a credential
Returns == keys' = keys /\ rot' # <<>> /\ (currentIndex' # currentIndex \/ rot' # rot)

\* the positions of the pool from the one after position i on, cyclically
After(ks, i) == [j \in 1..Len(ks) |-> ((i + j - 1) % Len(ks)) + 1]

\* the healthy credential which follows credential k in pool order
NextHealthyAfter(ks, k) ==
  LET order == After(ks, IndexOfKey(ks, k))
      first == CHOOSE j \in 1..Len(ks) :
                 /\ IsHealthy(ks[order[j]])
                 /\ \A n \in 1..(j - 1) : ~IsHealthy(ks[order[n]])
  IN ks[order[first]].key

\* since the call which saw the healthy credentials `before`, credentials have
\* only become unhealthy or been removed: none was added or has recovered
OnlyLost(before) ==
  LET healthy == ValidNames(keys) IN
  /\ healthy # before
  /\ healthy = SelectSeq(before, LAMBDA k : k \in PoolKeys(getValidKeys(keys)))

\* C31: a getNextKey() call returns the healthy credential which follows the
\* credential returned last in pool order, also when credentials have become
\* unhealthy or have been removed since the last call; with more than one
\* healthy credential it never returns the credential returned last.
C31_RotationNotSkewed ==
  [][(Returns /\ rot # <<>> /\ rot[1] \in PoolKeys(keys) /\ OnlyLost(rot[2])) =>
       rot'[1] = NextHealthyAfter(keys, rot[1])]_vars

\* ------------------------------------------------------------------------
\* Properties of the keep-alive chunks
\* ------------------------------------------------------------------------
\* C32: a keep-alive chunk carries an empty delta and no finish reason, and
\* none is written once the upstream call of the fake-streaming request has
\* completed: every keep-alive chunk of the stream precedes every content
\* chunk, terminal chunk, error chunk and [DONE], and from the completion of
\* the call on, on the success path and on the error path, the keep-alive
\* timer is cancelled.
C32_KeepAliveOnlyWhilePending ==
  /\ ~keepAliveChunk.hasContent /\ keepAliveChunk.content = <<>>
  /\ keepAliveChunk.finish_reason = "null"
  /\ \A i \in 1..Len(controller.queue) :
       IsKeepAlive(controller.queue[i]) =>
         \A j \in 1..(i - 1) : IsKeepAlive(controller.queue[j])
  /\ (completed \/ upstream.kind # "none" \/ streamPc \in {"delay", "closed"})
       => ~keepAliveTimer

\* no step after the completion of the upstream call writes a keep-alive chunk
C32_NoKeepAliveAfterCompletion ==
  [][completed => KeepAlives(controller') = KeepAlives(controller)]_vars

\* keep-alive chunks were written, the call succeeded and the response was
\* sent to its end
C32_Witness ==
  /\ enableFakeStreaming
  /\ streamPc = "closed"
  /\ upstream.kind = "success"
  /\ KeepAlives(controller) = MaxKeepAlive
  /\ Deltas(controller) > 1

\* keep-alive chunks were written and the call failed
C32_WitnessError ==
  /\ enableFakeStreaming
  /\ streamPc = "closed"
  /\ upstream.kind = "failure"
  /\ KeepAlives(controller) > 0

\* ------------------------------------------------------------------------
\* Properties of one chatCompletionStream emission
\* ------------------------------------------------------------------------
\* the final chunk of chatCompletionStream: an empty delta and a finish reason
IsStop(f) ==
  /\ f.data = "chunk"
  /\ f.choices
  /\ ~f.hasContent
  /\ f.finish_reason = "stop"
  /\ f.error = NoOutcome

\* the content chunks written come from the upstream stream of one attempt
C33_ContentOfOneAttempt ==
  ~enableFakeStreaming => \A i, j \in 1..Len(origin) : origin[i] = origin[j]

\* the emission which has ended holds exactly one terminal chunk and exactly
\* one [DONE], after its content chunks
C33_OneTerminalOneDone ==
  (~enableFakeStreaming /\ streamPc = "closed") =>
    LET q == controller.queue IN
    /\ Count(q, IsStop) = 1
    /\ Count(q, IsDone) = 1
    /\ \A i, j \in 1..Len(q) :
         /\ (IsDelta(q[i]) /\ IsStop(q[j])) => i < j
         /\ (IsStop(q[i]) /\ IsDone(q[j])) => i < j

\* C33: one chatCompletionStream emission delivers the content chunks of
\* exactly one upstream attempt, in the order of their arrival, followed by
\* exactly one terminal chunk and exactly one [DONE]; the content chunks of an
\* attempt which failed part-way are not followed by content chunks of a
\* retry.
C33_OneAttemptPerEmission ==
  /\ C33_ContentOfOneAttempt
  /\ C33_OneTerminalOneDone

\* an emission whose upstream stream ended: here the claim holds
C33_SuccessAtFirstAttempt ==
  (~enableFakeStreaming /\ streamPc = "closed" /\ upstream.kind = "success"
     /\ streamAttempt = 0)
  => LET q == controller.queue IN
     /\ \A i \in 1..Len(origin) : origin[i] = 0
     /\ Len(origin) = Count(q, IsDelta)
     /\ Count(q, IsStop) = 1 /\ Count(q, IsDone) = 1
     /\ \A i \in 1..Len(q) : IsDelta(q[i]) <=> i <= Len(origin)
     /\ IsStop(q[Len(q) - 1]) /\ IsDone(q[Len(q)])

\* content chunks of a first attempt, then the whole answer of the retry
C33_WitnessRetry ==
  /\ ~enableFakeStreaming
  /\ streamPc = "closed"
  /\ upstream.kind = "success"
  /\ origin = <<0, 1>>

\* ------------------------------------------------------------------------
\* Properties of splitIntoChunks
\* ------------------------------------------------------------------------
RECURSIVE Concat(_)
Concat(cs) == IF cs = <<>> THEN <<>> ELSE Head(cs) \o Concat(Tail(cs))

\* the text of the response which handleFakeStreaming has split
SplitText == TextOf[upstream.text]
HasSplit == enableFakeStreaming /\ upstream.kind = "success" /\ SplitText # <<>>

\* no chunk is empty or blank, and none holds more than maxChunkSize words
C34_ChunksSmallAndNotBlank ==
  HasSplit =>
    LET cs == splitIntoChunks(SplitText) IN
    \A i \in 1..Len(cs) :
      /\ cs[i] # <<>>
      /\ ~isBlank(cs[i])
      /\ wordCount(cs[i]) <= maxChunkSize

\* the chunks, put together in their order, are the text
C34_ConcatenationIsText ==
  HasSplit => Concat(splitIntoChunks(SplitText)) = SplitText

\* the same for the texts which do not end with white space
C34_ConcatenationOfTrimmedEnd ==
  (HasSplit /\ ~isSpace(SplitText[Len(SplitText)]))
    => Concat(splitIntoChunks(SplitText)) = SplitText

\* C34: for every completion text, with leading, trailing or repeated white
\* space or without, splitIntoChunks returns chunks in the order of the text,
\* each of at most 10 words, none empty or blank, whose concatenation is the
\* text.
C34_SplitIntoChunks ==
  /\ C34_ChunksSmallAndNotBlank
  /\ C34_ConcatenationIsText

\* a text of more than one chunk with white space in front and repeated
\* between words has been split
C34_WitnessLeading ==
  /\ HasSplit
  /\ upstream.text = "T_11_LEADING"
  /\ Len(splitIntoChunks(SplitText)) = 2

\* ------------------------------------------------------------------------
\* Properties of the per-client day limit
\* ------------------------------------------------------------------------
\* the calls of the client of the last call which were allowed this day, and
\* the calls allowed in this minute, before the last call
DayBefore == dayAllowed[lastRL.ip] - (IF lastRL.allowed THEN 1 ELSE 0)
MinuteBefore == minuteAllowed - (IF lastRL.allowed THEN 1 ELSE 0)

C35_WitnessRejected ==
  /\ lastRL.ip = "ipA"
  /\ ~lastRL.allowed
  /\ lastRL.by = "day"
  /\ dayAllowed["ipB"] = 0

\* the next day client A is allowed again, while the entry of the day before,
\* at the ceiling, is still in the cache
C35_WitnessNextDay ==
  /\ now \div 86400000 = 1
  /\ lastRL.ip = "ipA"
  /\ lastRL.allowed
  /\ dayKey("ipA", 0) \in DOMAIN limiterCache
  /\ limiterCache[dayKey("ipA", 0)].v.count = maxRequestsPerDayPerIP

\* ------------------------------------------------------------------------
\* Properties of the validation probes
\* ------------------------------------------------------------------------
\* a probe which answers changes the pool as markKeySuccess does
C36_ProbeOkLikeMarkKeySuccess ==
  [][\A k \in KeyUniverse : ProbeOk(k) => keys' = markKeySuccess(keys, k)]_vars

\* a probe which fails with error e changes the pool as markKeyFailed does
C36_ProbeFailLikeMarkKeyFailed ==
  [][\A k \in KeyUniverse, e \in ReportedErrors :
       ProbeFail(k, e) => keys' = markKeyFailed(keys, k, e)]_vars

\* the same for the errors other than 'API key not valid'
C36_ProbeFailOtherErrors ==
  [][\A k \in KeyUniverse, e \in ReportedErrors \ {"E_KEY_INVALID"} :
       ProbeFail(k, e) => keys' = markKeyFailed(keys, k, e)]_vars

\* C36: a validation probe which fails with error e changes the health flag
\* and the error count of its credential exactly as markKeyFailed(credential,
\* e) does, for every e, and a probe which answers changes them exactly as
\* markKeySuccess(credential) does.
C36_ProbeLikeReport ==
  [][/\ \A k \in KeyUniverse, e \in ReportedErrors :
          ProbeFail(k, e) => keys' = markKeyFailed(keys, k, e)
     /\ \A k \in KeyUniverse :
          ProbeOk(k) => keys' = markKeySuccess(keys, k)]_vars

\* ------------------------------------------------------------------------
\* Health flag and error count
\* ------------------------------------------------------------------------
\* C37: in every reachable state of the pool, after reports, probes, added
\* and removed credentials, a credential's isValid is false exactly when its
\* errorCount has reached maxErrorCount.
C37_InvalidIffCountAtMax ==
  \A i \in 1..Len(keys) :
    ~keys[i].isValid <=> keys[i].errorCount >= maxErrorCount

\* a credential disabled by repeated failures and reported again, next to a
\* credential one failure below the threshold
C37_Witness ==
  \E i, j \in 1..Len(keys) :
    /\ ~keys[i].isValid
    /\ keys[i].errorCount > maxErrorCount
    /\ keys[j].isValid
    /\ keys[j].errorCount = maxErrorCount - 1

\* a credential disabled at once by a permanent failure, and one put back by
\* a success
C37_WitnessPermanent ==
  /\ lastOp.op = "markKeyFailed"
  /\ lastOp.ok
  /\ lastOp.prior = 0
  /\ ~RecordOf(lastOp.key).isValid

\* ------------------------------------------------------------------------
\* Properties of the variant entries
\* ------------------------------------------------------------------------
\* the variant entries of the cache under fingerprint base
VariantsOf(base) == {k \in DOMAIN responseCache : k.base = base /\ k.variant > 0}

\* the fan-out of a miss: concurrentRequests calls, or one call
FanOut == IF FanoutOn THEN concurrentRequests ELSE 1

\* C38: after any number of requests the cache holds, for every fingerprint,
\* at most fan-out - 1 variant entries, under the keys _variant_1 to
\* _variant_(fan-out - 1), which later requests use again; and a cache hit
\* of handleRequest returns the entry under the fingerprint itself, which
\* is the response handleRequest returned last for that fingerprint and not
\* one of the additional responses.
C38_VariantsBounded ==
  /\ \A r \in Requests :
       /\ Cardinality(VariantsOf(MainKey[r].base)) <= FanOut - 1
       /\ \A k \in VariantsOf(MainKey[r].base) : k.variant <= FanOut - 1
  /\ lastEvent.kind = "hit" =>
       /\ MainKey[lastEvent.req] \in DOMAIN responseCache
       /\ lastEvent.resp = responseCache[MainKey[lastEvent.req]].v.response
       /\ \E q \in LiveFor(lastEvent.req) : lastEvent.resp = stored[q].resp

\* a hit while the cache holds a variant entry of the fingerprint with
\* another response than the one returned
C38_Witness ==
  /\ FanoutOn
  /\ lastEvent.kind = "hit"
  /\ \E k \in VariantsOf(MainKey[lastEvent.req].base) :
       responseCache[k].v.response # lastEvent.resp

\* a variant entry stored later than the entry under the fingerprint itself
C38_WitnessVariantLater ==
  \E k \in DOMAIN responseCache :
    /\ k.variant = 1
    /\ CacheKey(k.base, 0) \in DOMAIN responseCache
    /\ responseCache[k].t > responseCache[CacheKey(k.base, 0)].t

\* ------------------------------------------------------------------------
\* What a request rejected after the limiter has cost
\* ------------------------------------------------------------------------
\* the counters the limiter reads after the step are those before it plus one
CountedOnce(ip) ==
  /\ MinuteCount(limiterCache', now') = MinuteCount(limiterCache, now) + 1
  /\ DayCount(limiterCache', ip, now') = DayCount(limiterCache, ip, now) + 1
  /\ \A other \in Clients \ {ip} :
       DayCount(limiterCache', other, now') = DayCount(limiterCache, other, now)

\* C39: the limiter's counters are incremented before the password and the
\* body are looked at.  The step which answers 401 has added one to the
\* global minute counter and one to the day counter of the client; so has
\* the step which lets a request pass to the reading of its body, and the
\* step which then answers 400 for the body takes nothing back.
C39_RejectedRequestsCount ==
  [][/\ (answer'.status = 401 /\ (answer' # answer \/ minuteCalls' # minuteCalls))
          => CountedOnce(answer'.ip)
     /\ \A h \in Handlers :
          /\ (gate[h] = "idle" /\ gate'[h] = "json") => CountedOnce(answer'.ip)
          /\ (gate[h] = "json" /\ gate'[h] = "idle" /\ answer'.status = 400)
               => /\ limiterCache' = limiterCache
                  /\ now' = now]_vars

\* a request with a wrong token has taken the last place of the minute
C39_Witness ==
  /\ answer.status = 401
  /\ lastRL.ip = answer.ip
  /\ lastRL.allowed
  /\ MinuteCount(limiterCache, now) = maxRequestsPerMinute
  /\ DayCount(limiterCache, answer.ip, now) = lastRL.dayBefore + 1

\* a request with an invalid body has been answered 400 and its place in
\* the minute is taken
C39_WitnessBody ==
  /\ answer.status = 400
  /\ MinuteCount(limiterCache, now) = 1
  /\ minuteCalls = 1

\* a request is rejected by the minute limit while no request has been
\* dispatched: the places of the minute were taken by requests answered 401
\* or 400
C39_WitnessCostOf401 ==
  /\ answer.status = 429
  /\ lastRL.by = "minute"
  /\ \A h \in Handlers : gate[h] = "idle" /\ call[h].phase = "idle"
  /\ lastEvent = NoEvent
  /\ controller = NewController
  /\ streamPc = "idle"

\* ------------------------------------------------------------------------
\* Properties of resetRateLimits
\* ------------------------------------------------------------------------
\* the entries of the limiter's cache which are not day entries of client ip
OthersEntries(ip) == {k \in DOMAIN limiterCache : ~(k[1] = "day" /\ k[2] = ip)}

\* C40: resetRateLimits(ip) deletes the entries of client ip and nothing
\* else: the global minute counters and the day counters of the other
\* clients are in the cache afterwards, with their counts.
C40_ResetOnlyOwnEntries ==
  [][\A ip \in Clients :
       ResetRateLimits(ip) =>
         /\ \A k \in OthersEntries(ip) :
              k \in DOMAIN limiterCache' /\ limiterCache'[k] = limiterCache[k]
         /\ MinuteCount(limiterCache', now') = MinuteCount(limiterCache, now)
         /\ \A other \in Clients \ {ip} :
              DayCount(limiterCache', other, now') = DayCount(limiterCache, other, now)
         /\ DayCount(limiterCache', ip, now') = 0]_vars

\* the part of the claim about the minute counter and the client's own entries
C40_ResetKeepsMinuteCounter ==
  [][\A ip \in Clients :
       ResetRateLimits(ip) =>
         /\ MinuteCount(limiterCache', now') = MinuteCount(limiterCache, now)
         /\ DayCount(limiterCache', ip, now') = 0]_vars

\* the claim for the client whose address is part of no other client's key
C40_ResetOfLongerAddress ==
  [][ResetRateLimits("ipB") =>
       \A k \in OthersEntries("ipB") :
         k \in DOMAIN limiterCache' /\ limiterCache'[k] = limiterCache[k]]_vars

====
